---- MODULE Spec2Model ----
(***************************************************************************)
(* Minisys-1A assembler: pseudo-instruction expander, two-pass encoder,    *)
(* hardware-rule disassembler and fixed-layout linker, as state machines.  *)
(***************************************************************************)
EXTENDS Integers, Sequences, FiniteSets, TLC

(***************************************************************************)
(* 32-bit integer arithmetic of the bitwise operators the code uses.  A    *)
(* word is kept as the signed 32-bit integer that |, & and << yield.       *)
(***************************************************************************)
MinInt32 == -2147483647 - 1

Bit(v, i) == IF i = 31 THEN (IF v < 0 THEN 1 ELSE 0) ELSE (v \div (2^i)) % 2

RECURSIVE SumBits(_, _)
SumBits(f, i) == IF i < 0 THEN 0 ELSE f[i] * (2^i) + SumBits(f, i - 1)

FromBits(f) == SumBits(f, 30) + (IF f[31] = 1 THEN MinInt32 ELSE 0)

\* a | b
BitOr(a, b) == FromBits([i \in 0..31 |-> IF Bit(a, i) = 1 \/ Bit(b, i) = 1 THEN 1 ELSE 0])

\* a & b
BitAnd(a, b) == FromBits([i \in 0..31 |-> IF Bit(a, i) = 1 /\ Bit(b, i) = 1 THEN 1 ELSE 0])

\* a << n
Shl(a, n) == FromBits([i \in 0..31 |-> IF i >= n THEN Bit(a, i - n) ELSE 0])

\* a >>> n, for 1 <= n <= 31
Shru(a, n) == FromBits([i \in 0..31 |-> IF i + n <= 31 THEN Bit(a, i + n) ELSE 0])

\* a >> n
Sar(a, n) == a \div (2^n)

\* a & ((1 << bits) - 1), for bits <= 30
Mask(a, bits) == a % (2^bits)

(***************************************************************************)
(* Operands and instructions (core types).  A field a JS object leaves     *)
(* undefined is kept at its falsy value: 0 for numbers, "" for strings;    *)
(* an instruction the expander builds has no address (-1).                 *)
(***************************************************************************)
Operand(t, r, i, o, l) == [type |-> t, register |-> r, immediate |-> i, offset |-> o, label |-> l]

RegOp(r) == Operand("REGISTER", r, 0, 0, "")

ImmOp(i) == Operand("IMMEDIATE", 0, i, 0, "")

LabelOp(l) == Operand("LABEL", 0, 0, 0, l)

AddrOp(o, r, l) == Operand("ADDRESS", r, 0, o, l)

NullOperand == Operand("NULL", 0, 0, 0, "")

NoAddress == -1

Instr(m, ops, a) == [mnemonic |-> m, operands |-> ops, address |-> a]

(***************************************************************************)
(* Instruction registry.                                                   *)
(***************************************************************************)
OpDef(t, n, b, p, r) == [type |-> t, name |-> n, bits |-> b, position |-> p, required |-> r]

NoFunct == -1

InsDef(m, t, op, f, ops, enc) ==
    [mnemonic |-> m, type |-> t, opcode |-> op, funct |-> f, operands |-> ops, encoding |-> enc]

INSTRUCTION_SET == <<
    InsDef("add", "R_TYPE", 0, 32, <<OpDef("REGISTER", "rd", 5, 11, TRUE), OpDef("REGISTER", "rs", 5, 21, TRUE), OpDef("REGISTER", "rt", 5, 16, TRUE)>>, "R"),
    InsDef("addu", "R_TYPE", 0, 33, <<OpDef("REGISTER", "rd", 5, 11, TRUE), OpDef("REGISTER", "rs", 5, 21, TRUE), OpDef("REGISTER", "rt", 5, 16, TRUE)>>, "R"),
    InsDef("sub", "R_TYPE", 0, 34, <<OpDef("REGISTER", "rd", 5, 11, TRUE), OpDef("REGISTER", "rs", 5, 21, TRUE), OpDef("REGISTER", "rt", 5, 16, TRUE)>>, "R"),
    InsDef("subu", "R_TYPE", 0, 35, <<OpDef("REGISTER", "rd", 5, 11, TRUE), OpDef("REGISTER", "rs", 5, 21, TRUE), OpDef("REGISTER", "rt", 5, 16, TRUE)>>, "R"),
    InsDef("and", "R_TYPE", 0, 36, <<OpDef("REGISTER", "rd", 5, 11, TRUE), OpDef("REGISTER", "rs", 5, 21, TRUE), OpDef("REGISTER", "rt", 5, 16, TRUE)>>, "R"),
    InsDef("or", "R_TYPE", 0, 37, <<OpDef("REGISTER", "rd", 5, 11, TRUE), OpDef("REGISTER", "rs", 5, 21, TRUE), OpDef("REGISTER", "rt", 5, 16, TRUE)>>, "R"),
    InsDef("slt", "R_TYPE", 0, 42, <<OpDef("REGISTER", "rd", 5, 11, TRUE), OpDef("REGISTER", "rs", 5, 21, TRUE), OpDef("REGISTER", "rt", 5, 16, TRUE)>>, "R"),
    InsDef("sltu", "R_TYPE", 0, 43, <<OpDef("REGISTER", "rd", 5, 11, TRUE), OpDef("REGISTER", "rs", 5, 21, TRUE), OpDef("REGISTER", "rt", 5, 16, TRUE)>>, "R"),
    InsDef("jr", "R_TYPE", 0, 8, <<OpDef("REGISTER", "rs", 5, 21, TRUE)>>, "R"),
    InsDef("jalr", "R_TYPE", 0, 9, <<OpDef("REGISTER", "rd", 5, 11, TRUE), OpDef("REGISTER", "rs", 5, 21, TRUE)>>, "R"),
    InsDef("mult", "R_TYPE", 0, 24, <<OpDef("REGISTER", "rs", 5, 21, TRUE), OpDef("REGISTER", "rt", 5, 16, TRUE)>>, "R"),
    InsDef("multu", "R_TYPE", 0, 25, <<OpDef("REGISTER", "rs", 5, 21, TRUE), OpDef("REGISTER", "rt", 5, 16, TRUE)>>, "R"),
    InsDef("div", "R_TYPE", 0, 26, <<OpDef("REGISTER", "rs", 5, 21, TRUE), OpDef("REGISTER", "rt", 5, 16, TRUE)>>, "R"),
    InsDef("divu", "R_TYPE", 0, 27, <<OpDef("REGISTER", "rs", 5, 21, TRUE), OpDef("REGISTER", "rt", 5, 16, TRUE)>>, "R"),
    InsDef("mfhi", "R_TYPE", 0, 16, <<OpDef("REGISTER", "rd", 5, 11, TRUE)>>, "R"),
    InsDef("mflo", "R_TYPE", 0, 18, <<OpDef("REGISTER", "rd", 5, 11, TRUE)>>, "R"),
    InsDef("mthi", "R_TYPE", 0, 17, <<OpDef("REGISTER", "rs", 5, 21, TRUE)>>, "R"),
    InsDef("mtlo", "R_TYPE", 0, 19, <<OpDef("REGISTER", "rs", 5, 21, TRUE)>>, "R"),
    InsDef("addi", "I_TYPE", 8, -1, <<OpDef("REGISTER", "rt", 5, 16, TRUE), OpDef("REGISTER", "rs", 5, 21, TRUE), OpDef("IMMEDIATE", "immediate", 16, 0, TRUE)>>, "I"),
    InsDef("addiu", "I_TYPE", 9, -1, <<OpDef("REGISTER", "rt", 5, 16, TRUE), OpDef("REGISTER", "rs", 5, 21, TRUE), OpDef("IMMEDIATE", "immediate", 16, 0, TRUE)>>, "I"),
    InsDef("andi", "I_TYPE", 12, -1, <<OpDef("REGISTER", "rt", 5, 16, TRUE), OpDef("REGISTER", "rs", 5, 21, TRUE), OpDef("IMMEDIATE", "immediate", 16, 0, TRUE)>>, "I"),
    InsDef("ori", "I_TYPE", 13, -1, <<OpDef("REGISTER", "rt", 5, 16, TRUE), OpDef("REGISTER", "rs", 5, 21, TRUE), OpDef("IMMEDIATE", "immediate", 16, 0, TRUE)>>, "I"),
    InsDef("lui", "I_TYPE", 15, -1, <<OpDef("REGISTER", "rt", 5, 16, TRUE), OpDef("IMMEDIATE", "immediate", 16, 0, TRUE)>>, "I"),
    InsDef("lw", "I_TYPE", 35, -1, <<OpDef("REGISTER", "rt", 5, 16, TRUE), OpDef("OFFSET", "offset", 16, 0, TRUE), OpDef("REGISTER", "rs", 5, 21, TRUE)>>, "I"),
    InsDef("sw", "I_TYPE", 43, -1, <<OpDef("REGISTER", "rt", 5, 16, TRUE), OpDef("OFFSET", "offset", 16, 0, TRUE), OpDef("REGISTER", "rs", 5, 21, TRUE)>>, "I"),
    InsDef("beq", "I_TYPE", 4, -1, <<OpDef("REGISTER", "rt", 5, 16, TRUE), OpDef("REGISTER", "rs", 5, 21, TRUE), OpDef("LABEL", "label", 16, 0, TRUE)>>, "I"),
    InsDef("bne", "I_TYPE", 5, -1, <<OpDef("REGISTER", "rt", 5, 16, TRUE), OpDef("REGISTER", "rs", 5, 21, TRUE), OpDef("LABEL", "label", 16, 0, TRUE)>>, "I"),
    InsDef("j", "J_TYPE", 2, -1, <<OpDef("LABEL", "label", 26, 0, TRUE)>>, "J"),
    InsDef("jal", "J_TYPE", 3, -1, <<OpDef("LABEL", "label", 26, 0, TRUE)>>, "J"),
    InsDef("nop", "SPECIAL", 0, 0, <<>>, "R"),
    InsDef("syscall", "SPECIAL", 0, 12, <<>>, "R"),
    InsDef("break", "SPECIAL", 0, 13, <<>>, "R"),
    InsDef("mfc0", "I_TYPE", 16, -1, <<OpDef("REGISTER", "rt", 5, 16, TRUE), OpDef("REGISTER", "rd", 5, 11, TRUE), OpDef("IMMEDIATE", "sel", 3, 0, FALSE)>>, "CP0"),
    InsDef("mtc0", "I_TYPE", 16, -1, <<OpDef("REGISTER", "rt", 5, 16, TRUE), OpDef("REGISTER", "rd", 5, 11, TRUE), OpDef("IMMEDIATE", "sel", 3, 0, FALSE)>>, "CP0"),
    InsDef("eret", "SPECIAL", 16, -1, <<>>, "CP0"),
    InsDef("xor", "R_TYPE", 0, 38, <<OpDef("REGISTER", "rd", 5, 11, TRUE), OpDef("REGISTER", "rs", 5, 21, TRUE), OpDef("REGISTER", "rt", 5, 16, TRUE)>>, "R"),
    InsDef("nor", "R_TYPE", 0, 39, <<OpDef("REGISTER", "rd", 5, 11, TRUE), OpDef("REGISTER", "rs", 5, 21, TRUE), OpDef("REGISTER", "rt", 5, 16, TRUE)>>, "R"),
    InsDef("sll", "R_TYPE", 0, 0, <<OpDef("REGISTER", "rd", 5, 11, TRUE), OpDef("REGISTER", "rt", 5, 16, TRUE), OpDef("IMMEDIATE", "shamt", 5, 6, TRUE)>>, "R"),
    InsDef("srl", "R_TYPE", 0, 2, <<OpDef("REGISTER", "rd", 5, 11, TRUE), OpDef("REGISTER", "rt", 5, 16, TRUE), OpDef("IMMEDIATE", "shamt", 5, 6, TRUE)>>, "R"),
    InsDef("sra", "R_TYPE", 0, 3, <<OpDef("REGISTER", "rd", 5, 11, TRUE), OpDef("REGISTER", "rt", 5, 16, TRUE), OpDef("IMMEDIATE", "shamt", 5, 6, TRUE)>>, "R"),
    InsDef("sllv", "R_TYPE", 0, 4, <<OpDef("REGISTER", "rd", 5, 11, TRUE), OpDef("REGISTER", "rt", 5, 16, TRUE), OpDef("REGISTER", "rs", 5, 21, TRUE)>>, "R"),
    InsDef("srlv", "R_TYPE", 0, 6, <<OpDef("REGISTER", "rd", 5, 11, TRUE), OpDef("REGISTER", "rt", 5, 16, TRUE), OpDef("REGISTER", "rs", 5, 21, TRUE)>>, "R"),
    InsDef("srav", "R_TYPE", 0, 7, <<OpDef("REGISTER", "rd", 5, 11, TRUE), OpDef("REGISTER", "rt", 5, 16, TRUE), OpDef("REGISTER", "rs", 5, 21, TRUE)>>, "R"),
    InsDef("slti", "I_TYPE", 10, -1, <<OpDef("REGISTER", "rt", 5, 16, TRUE), OpDef("REGISTER", "rs", 5, 21, TRUE), OpDef("IMMEDIATE", "immediate", 16, 0, TRUE)>>, "I"),
    InsDef("lb", "I_TYPE", 32, -1, <<OpDef("REGISTER", "rt", 5, 16, TRUE), OpDef("OFFSET", "offset", 16, 0, TRUE), OpDef("REGISTER", "rs", 5, 21, TRUE)>>, "I"),
    InsDef("sb", "I_TYPE", 40, -1, <<OpDef("REGISTER", "rt", 5, 16, TRUE), OpDef("OFFSET", "offset", 16, 0, TRUE), OpDef("REGISTER", "rs", 5, 21, TRUE)>>, "I"),
    InsDef("lh", "I_TYPE", 33, -1, <<OpDef("REGISTER", "rt", 5, 16, TRUE), OpDef("OFFSET", "offset", 16, 0, TRUE), OpDef("REGISTER", "rs", 5, 21, TRUE)>>, "I"),
    InsDef("sh", "I_TYPE", 41, -1, <<OpDef("REGISTER", "rt", 5, 16, TRUE), OpDef("OFFSET", "offset", 16, 0, TRUE), OpDef("REGISTER", "rs", 5, 21, TRUE)>>, "I"),
    InsDef("lbu", "I_TYPE", 36, -1, <<OpDef("REGISTER", "rt", 5, 16, TRUE), OpDef("OFFSET", "offset", 16, 0, TRUE), OpDef("REGISTER", "rs", 5, 21, TRUE)>>, "I"),
    InsDef("lhu", "I_TYPE", 37, -1, <<OpDef("REGISTER", "rt", 5, 16, TRUE), OpDef("OFFSET", "offset", 16, 0, TRUE), OpDef("REGISTER", "rs", 5, 21, TRUE)>>, "I"),
    InsDef("xori", "I_TYPE", 14, -1, <<OpDef("REGISTER", "rt", 5, 16, TRUE), OpDef("REGISTER", "rs", 5, 21, TRUE), OpDef("IMMEDIATE", "immediate", 16, 0, TRUE)>>, "I"),
    InsDef("sltiu", "I_TYPE", 11, -1, <<OpDef("REGISTER", "rt", 5, 16, TRUE), OpDef("REGISTER", "rs", 5, 21, TRUE), OpDef("IMMEDIATE", "immediate", 16, 0, TRUE)>>, "I"),
    InsDef("blez", "I_TYPE", 6, -1, <<OpDef("REGISTER", "rs", 5, 21, TRUE), OpDef("LABEL", "label", 16, 0, TRUE)>>, "I"),
    InsDef("bgtz", "I_TYPE", 7, -1, <<OpDef("REGISTER", "rs", 5, 21, TRUE), OpDef("LABEL", "label", 16, 0, TRUE)>>, "I"),
    InsDef("bltz", "I_TYPE", 1, -1, <<OpDef("REGISTER", "rs", 5, 21, TRUE), OpDef("LABEL", "label", 16, 0, TRUE)>>, "I"),
    InsDef("bgez", "I_TYPE", 1, -1, <<OpDef("REGISTER", "rs", 5, 21, TRUE), OpDef("LABEL", "label", 16, 0, TRUE)>>, "I"),
    InsDef("bgezal", "I_TYPE", 1, -1, <<OpDef("REGISTER", "rs", 5, 21, TRUE), OpDef("LABEL", "label", 16, 0, TRUE)>>, "I"),
    InsDef("bltzal", "I_TYPE", 1, -1, <<OpDef("REGISTER", "rs", 5, 21, TRUE), OpDef("LABEL", "label", 16, 0, TRUE)>>, "I")
>>

HasInstruction(m) == \E i \in DOMAIN INSTRUCTION_SET : INSTRUCTION_SET[i].mnemonic = m

\* Map.set in registry order: the last entry of a mnemonic is the one found.
INSTRUCTION_LOOKUP(m) ==
    LET last == CHOOSE i \in DOMAIN INSTRUCTION_SET :
                    /\ INSTRUCTION_SET[i].mnemonic = m
                    /\ \A j \in DOMAIN INSTRUCTION_SET :
                           INSTRUCTION_SET[j].mnemonic = m => j <= i
    IN  INSTRUCTION_SET[last]

(***************************************************************************)
(* Pseudo-instruction registry.  An expansion template is kept as the      *)
(* list of its whitespace-separated parts (commas dropped), each part      *)
(* tagged by the shape the expander's operand parser recognises:           *)
(*   "word"    plain text (a mnemonic, a placeholder name, a label name)   *)
(*   "dollar"  text that starts with $                                     *)
(*   "num"     a decimal literal: sign and digits                          *)
(*   "mem"     offset(register): digits and register text                  *)
(*   "hi","lo" %hi(text), %lo(text)                                        *)
(***************************************************************************)
Tok(k, s, neg, d) == [k |-> k, s |-> s, neg |-> neg, d |-> d, l |-> ""]

W(s) == Tok("word", s, FALSE, <<>>)

D(s) == Tok("dollar", s, FALSE, <<>>)

Num(neg, d) == Tok("num", "", neg, d)

Mem(d, s) == Tok("mem", s, FALSE, d)

\* offset(register) of a source line with the offset a signed decimal
\* number, a signed hexadecimal number, or an identifier
MemNum(neg, d, s) == Tok("mem", s, neg, d)

MemHex(neg, d, s) == Tok("memhex", s, neg, d)

MemLabel(l, s) == [k |-> "memlabel", s |-> s, neg |-> FALSE, d |-> <<>>, l |-> l]

Hi(s) == Tok("hi", s, FALSE, <<>>)

Lo(s) == Tok("lo", s, FALSE, <<>>)

PseudoDef(m, e) == [mnemonic |-> m, expansion |-> e]

PSEUDO_INSTRUCTIONS == <<
    PseudoDef("move", << <<W("add"), D("$1"), D("$2"), D("$zero")>> >>),
    PseudoDef("li",   << <<W("lui"), D("$1"), W("immediate_high")>>,
                         <<W("ori"), D("$1"), D("$1"), W("immediate_low")>> >>),
    PseudoDef("la",   << <<W("lui"), D("$1"), Hi("address")>>,
                         <<W("ori"), D("$1"), D("$1"), Lo("address")>> >>),
    PseudoDef("push", << <<W("addiu"), D("$sp"), D("$sp"), Num(TRUE, <<4>>)>>,
                         <<W("sw"), D("$1"), Mem(<<0>>, "$sp")>> >>),
    PseudoDef("pop",  << <<W("lw"), D("$1"), Mem(<<0>>, "$sp")>>,
                         <<W("addiu"), D("$sp"), D("$sp"), Num(FALSE, <<4>>)>> >>),
    PseudoDef("not",  << <<W("nor"), D("$1"), D("$2"), D("$zero")>> >>),
    PseudoDef("neg",  << <<W("sub"), D("$1"), D("$zero"), D("$2")>> >>),
    PseudoDef("abs",  << <<W("slt"), D("$at"), D("$2"), D("$zero")>>,
                         <<W("sub"), D("$1"), D("$zero"), D("$2")>>,
                         <<W("movn"), D("$1"), D("$2"), D("$at")>> >>),
    PseudoDef("b",    << <<W("j"), W("label")>> >>),
    PseudoDef("bal",  << <<W("jal"), W("label")>> >>),
    PseudoDef("beqz", << <<W("beq"), D("$1"), D("$zero"), W("label")>> >>),
    PseudoDef("bnez", << <<W("bne"), D("$1"), D("$zero"), W("label")>> >>),
    PseudoDef("bgt",  << <<W("slt"), D("$at"), D("$3"), D("$2")>>,
                         <<W("bne"), D("$at"), D("$zero"), W("label")>> >>),
    PseudoDef("bge",  << <<W("slt"), D("$at"), D("$2"), D("$3")>>,
                         <<W("beq"), D("$at"), D("$zero"), W("label")>> >>),
    PseudoDef("blt",  << <<W("slt"), D("$at"), D("$2"), D("$3")>>,
                         <<W("bne"), D("$at"), D("$zero"), W("label")>> >>),
    PseudoDef("ble",  << <<W("slt"), D("$at"), D("$3"), D("$2")>>,
                         <<W("beq"), D("$at"), D("$zero"), W("label")>> >>),
    PseudoDef("jg",   << <<W("slt"), D("$at"), D("$3"), D("$2")>>,
                         <<W("bne"), D("$at"), D("$zero"), W("label")>> >>),
    PseudoDef("jle",  << <<W("slt"), D("$at"), D("$2"), D("$3")>>,
                         <<W("beq"), D("$at"), D("$zero"), W("label")>> >>)
>>

HasPseudo(m) == \E i \in DOMAIN PSEUDO_INSTRUCTIONS : PSEUDO_INSTRUCTIONS[i].mnemonic = m

PSEUDO_INSTRUCTION_LOOKUP(m) ==
    LET last == CHOOSE i \in DOMAIN PSEUDO_INSTRUCTIONS :
                    /\ PSEUDO_INSTRUCTIONS[i].mnemonic = m
                    /\ \A j \in DOMAIN PSEUDO_INSTRUCTIONS :
                           PSEUDO_INSTRUCTIONS[j].mnemonic = m => j <= i
    IN  PSEUDO_INSTRUCTIONS[last]

(***************************************************************************)
(* Number <-> text.  Number.prototype.toString writes the decimal digits,  *)
(* parseInt reads them back.                                               *)
(***************************************************************************)
RECURSIVE Digits(_)
Digits(n) == IF n < 10 THEN <<n>> ELSE Append(Digits(n \div 10), n % 10)

NumberToString(n) == IF n < 0 THEN Num(TRUE, Digits(-n)) ELSE Num(FALSE, Digits(n))

RECURSIVE DigitsValue(_)
DigitsValue(d) ==
    IF d = <<>> THEN 0 ELSE DigitsValue(SubSeq(d, 1, Len(d) - 1)) * 10 + d[Len(d)]

ParseInt(tok) == IF tok.neg THEN -DigitsValue(tok.d) ELSE DigitsValue(tok.d)

(***************************************************************************)
(* Pseudo-instruction expander.  The context is optional: NoContext is an  *)
(* expander constructed without one.                                       *)
(***************************************************************************)
NoContext == [has |-> FALSE, globalLabels |-> <<>>]

WithContext(labels) == [has |-> TRUE, globalLabels |-> labels]

\* registerMap, indexed by the register text (the $ is stripped by the caller)
ExpanderRegisterNames == <<
    "$zero", "$at", "$v0", "$v1", "$a0", "$a1", "$a2", "$a3",
    "$t0", "$t1", "$t2", "$t3", "$t4", "$t5", "$t6", "$t7",
    "$s0", "$s1", "$s2", "$s3", "$s4", "$s5", "$s6", "$s7",
    "$t8", "$t9", "$k0", "$k1", "$gp", "$sp", "$fp", "$ra" >>

GetRegisterIndex(regName) ==
    IF \E i \in DOMAIN ExpanderRegisterNames : ExpanderRegisterNames[i] = regName
    THEN (CHOOSE i \in DOMAIN ExpanderRegisterNames : ExpanderRegisterNames[i] = regName) - 1
    ELSE 0

GetOperandByIndex(instruction, index) ==
    IF index < Len(instruction.operands) THEN instruction.operands[index + 1] ELSE NullOperand

\* operands.find(op => op.type === type), and for a label also op.label truthy
FindOperand(instruction, type) ==
    LET ops  == instruction.operands
        hits == {i \in DOMAIN ops : ops[i].type = type /\ (type = "LABEL" => ops[i].label # "")}
    IN  IF hits = {} THEN NullOperand
        ELSE ops[CHOOSE i \in hits : \A j \in hits : i <= j]

ParseMemoryAddress(tok) ==
    IF tok.k = "mem" THEN AddrOp(DigitsValue(tok.d), GetRegisterIndex(tok.s), "")
    ELSE NullOperand

ParseOperand(tok, originalInstruction) ==
    IF tok.k = "dollar" THEN
        IF tok.s = "$1" THEN GetOperandByIndex(originalInstruction, 0)
        ELSE IF tok.s = "$2" THEN GetOperandByIndex(originalInstruction, 1)
        ELSE IF tok.s = "$3" THEN GetOperandByIndex(originalInstruction, 2)
        ELSE IF tok.s = "$at" THEN RegOp(1)
        ELSE IF tok.s = "$zero" THEN RegOp(0)
        ELSE IF tok.s = "$sp" THEN RegOp(29)
        ELSE RegOp(GetRegisterIndex(tok.s))
    ELSE IF tok.k = "num" THEN ImmOp(ParseInt(tok))
    ELSE IF tok.k \in {"mem", "hi", "lo"} THEN ParseMemoryAddress(tok)
    ELSE LabelOp(tok.s)

HasTok(ts, k) == \E i \in DOMAIN ts : ts[i].k = k

HasWord(ts, s) == \E i \in DOMAIN ts : ts[i].k = "word" /\ ts[i].s = s

\* 1. %hi(address) / %lo(address): only with a context that knows the label
ReplaceHiLo(ts, originalInstruction, context) ==
    LET labelOperand == FindOperand(originalInstruction, "LABEL")
    IN  IF /\ HasTok(ts, "hi") \/ HasTok(ts, "lo")
           /\ labelOperand.type # "NULL"
           /\ context.has
           /\ labelOperand.label \in DOMAIN context.globalLabels
        THEN LET address == context.globalLabels[labelOperand.label]
             IN  [i \in DOMAIN ts |->
                    IF ts[i].k = "hi" THEN NumberToString(Mask(Shru(address, 16), 16))
                    ELSE IF ts[i].k = "lo" THEN NumberToString(Mask(address, 16))
                    ELSE IF ts[i] = W("address") THEN W(labelOperand.label)
                    ELSE ts[i]]
        ELSE ts

\* 2. immediate_high / immediate_low
ReplaceImmediate(ts, originalInstruction) ==
    LET immediateOperand == FindOperand(originalInstruction, "IMMEDIATE")
    IN  IF /\ HasWord(ts, "immediate_high") \/ HasWord(ts, "immediate_low")
           /\ immediateOperand.type # "NULL"
        THEN LET value == immediateOperand.immediate
             IN  [i \in DOMAIN ts |->
                    IF ts[i] = W("immediate_high") THEN NumberToString(Mask(Shru(value, 16), 16))
                    ELSE IF ts[i] = W("immediate_low") THEN NumberToString(Mask(value, 16))
                    ELSE ts[i]]
        ELSE ts

\* 3. label
ReplaceLabel(ts, originalInstruction) ==
    LET labelOperand == FindOperand(originalInstruction, "LABEL")
    IN  IF HasWord(ts, "label") /\ labelOperand.type # "NULL"
        THEN [i \in DOMAIN ts |-> IF ts[i] = W("label") THEN W(labelOperand.label) ELSE ts[i]]
        ELSE ts

\* 4. address, when no %hi / %lo is left
ReplaceAddress(ts, originalInstruction, context) ==
    LET addressOperand == FindOperand(originalInstruction, "LABEL")
    IN  IF /\ HasWord(ts, "address") /\ ~HasTok(ts, "hi") /\ ~HasTok(ts, "lo")
           /\ addressOperand.type # "NULL"
           /\ context.has
           /\ addressOperand.label \in DOMAIN context.globalLabels
        THEN [i \in DOMAIN ts |->
                IF ts[i] = W("address")
                THEN NumberToString(context.globalLabels[addressOperand.label])
                ELSE ts[i]]
        ELSE ts

ReplacePlaceholders(expansion, originalInstruction, context) ==
    ReplaceAddress(
        ReplaceLabel(
            ReplaceImmediate(
                ReplaceHiLo(expansion, originalInstruction, context),
                originalInstruction),
            originalInstruction),
        originalInstruction, context)

ParseExpansion(expansion, originalInstruction, context) ==
    LET cleanExpansion == ReplacePlaceholders(expansion, originalInstruction, context)
        parsed == [i \in 1..(Len(cleanExpansion) - 1) |->
                      ParseOperand(cleanExpansion[i + 1], originalInstruction)]
    IN  Instr(cleanExpansion[1].s,
              SelectSeq(parsed, LAMBDA o : o.type # "NULL"),
              NoAddress)

\* a range check that takes the 16 bits as unsigned
LiFits16Unsigned(value) == value >= 0 /\ value <= 65535

LiFits16(value) == value >= -32768 /\ value <= 32767

PushExpansion(instruction) ==
    << Instr("addiu", <<RegOp(29), RegOp(29), ImmOp(-4)>>, NoAddress),
       Instr("sw", <<instruction.operands[1], AddrOp(0, 29, "")>>, NoAddress) >>

\* a pop that leaves $sp where it was
PopExpansionNoRestore(instruction) ==
    << Instr("lw", <<instruction.operands[1], AddrOp(0, 29, "")>>, NoAddress),
       Instr("addiu", <<RegOp(29), RegOp(29), ImmOp(0)>>, NoAddress) >>

PopExpansion(instruction) ==
    << Instr("lw", <<instruction.operands[1], AddrOp(0, 29, "")>>, NoAddress),
       Instr("addiu", <<RegOp(29), RegOp(29), ImmOp(4)>>, NoAddress) >>

\* a jg that compares its registers in the order they were written
JgExpansionUnswapped(instruction) ==
    << Instr("slt", <<RegOp(1), instruction.operands[1], instruction.operands[2]>>, NoAddress),
       Instr("bne", <<RegOp(1), RegOp(0), instruction.operands[3]>>, NoAddress) >>

JgExpansion(instruction) ==
    << Instr("slt", <<RegOp(1), instruction.operands[2], instruction.operands[1]>>, NoAddress),
       Instr("bne", <<RegOp(1), RegOp(0), instruction.operands[3]>>, NoAddress) >>

JleExpansion(instruction) ==
    << Instr("slt", <<RegOp(1), instruction.operands[1], instruction.operands[2]>>, NoAddress),
       Instr("beq", <<RegOp(1), RegOp(0), instruction.operands[3]>>, NoAddress) >>

\* an expander that hands every instruction back as it came
ExpandNothing(instruction, context) == <<instruction>>

ExpandPseudoInstruction(instruction, context) ==
    LET m   == instruction.mnemonic
        ops == instruction.operands
        n   == Len(ops)
    IN  IF ~HasPseudo(m) THEN <<instruction>>
        ELSE IF /\ m = "li" /\ n >= 2
                /\ ops[2].type = "IMMEDIATE"
                /\ LiFits16(ops[2].immediate)
        THEN << Instr("addi", <<ops[1], RegOp(0), ops[2]>>, NoAddress) >>
        ELSE IF m = "push" /\ n >= 1
        THEN PushExpansion(instruction)
        ELSE IF m = "pop" /\ n >= 1
        THEN PopExpansion(instruction)
        ELSE IF m = "jg" /\ n >= 3
        THEN JgExpansion(instruction)
        ELSE IF m = "jle" /\ n >= 3
        THEN JleExpansion(instruction)
        ELSE LET expansion == PSEUDO_INSTRUCTION_LOOKUP(m).expansion
             IN  [i \in DOMAIN expansion |-> ParseExpansion(expansion[i], instruction, context)]

RECURSIVE ExpandAll(_, _)
ExpandAll(instructions, context) ==
    IF instructions = <<>> THEN <<>>
    ELSE ExpandPseudoInstruction(Head(instructions), context)
             \o ExpandAll(Tail(instructions), context)

(***************************************************************************)
(* Encoder.  A method that returns bytes, records fixups or throws is an   *)
(* operator whose value is a record: ok with the bytes and the fixups it   *)
(* recorded, or not ok with the text of the exception.                     *)
(***************************************************************************)
BRANCH_MNEMONICS == {"beq", "bne", "blez", "bgtz", "bgez", "bltz", "bgezal", "bltzal"}

Fixup(index, label, type) == [instructionIndex |-> index, label |-> label, type |-> type]

Done(bytes, fixups) == [ok |-> TRUE, bytes |-> bytes, fixups |-> fixups, message |-> "", subject |-> ""]

Throw(message, subject) ==
    [ok |-> FALSE, bytes |-> <<>>, fixups |-> <<>>, message |-> message, subject |-> subject]

\* a >>> n, for 2 <= n <= 31, by arithmetic
ShruFast(a, n) == IF a >= 0 THEN a \div (2^n) ELSE (a \div (2^n)) + 2^(32 - n)

WordToBytes(word) ==
    << Mask(ShruFast(word, 24), 8), Mask(ShruFast(word, 16), 8),
       Mask(ShruFast(word, 8), 8), Mask(word, 8) >>

\* (value & ((1 << bits) - 1)) << position, or-ed into word
PlaceField(word, value, operandDef) ==
    BitOr(word, Shl(Mask(value, operandDef.bits), operandDef.position))

GetCurrentInstructionAddress(currentInstructionIndex) == currentInstructionIndex * 4

\* the value, or "Undefined label" thrown: [ok, value, subject]
GetOperandValue(operand, operandDef, currentInstruction, labels, currentInstructionIndex) ==
    IF operand.type = "REGISTER" THEN [ok |-> TRUE, value |-> operand.register, subject |-> ""]
    ELSE IF operand.type = "IMMEDIATE" THEN [ok |-> TRUE, value |-> operand.immediate, subject |-> ""]
    ELSE IF operand.type = "LABEL" THEN
        IF operand.label = "" THEN [ok |-> TRUE, value |-> 0, subject |-> ""]
        ELSE IF operand.label \in DOMAIN labels THEN
            LET instructionAddress ==
                    IF currentInstruction.address > 0 THEN currentInstruction.address
                    ELSE GetCurrentInstructionAddress(currentInstructionIndex)
                nextInstructionAddress == instructionAddress + 4
                offset == Sar(labels[operand.label] - nextInstructionAddress, 2)
            IN  [ok |-> TRUE, value |-> Mask(offset, 16), subject |-> ""]
        ELSE [ok |-> FALSE, value |-> 0, subject |-> operand.label]
    ELSE IF operand.type = "ADDRESS" THEN
        IF operandDef.name = "offset" THEN [ok |-> TRUE, value |-> operand.offset, subject |-> ""]
        ELSE IF operandDef.name = "rs" THEN [ok |-> TRUE, value |-> operand.register, subject |-> ""]
        ELSE [ok |-> TRUE, value |-> operand.offset, subject |-> ""]
    ELSE [ok |-> TRUE, value |-> 0, subject |-> ""]

\* the operand loop of encodeRTypeInstruction, from slot i on
RECURSIVE RTypeOperands(_, _, _, _, _, _)
RTypeOperands(i, word, instruction, definition, labels, currentInstructionIndex) ==
    IF i > Len(definition.operands) THEN Done(WordToBytes(word), <<>>)
    ELSE IF i > Len(instruction.operands) THEN Throw("Missing operand", instruction.mnemonic)
    ELSE LET got == GetOperandValue(instruction.operands[i], definition.operands[i],
                                    instruction, labels, currentInstructionIndex)
         IN  IF ~got.ok THEN Throw("Undefined label", got.subject)
             ELSE RTypeOperands(i + 1, PlaceField(word, got.value, definition.operands[i]),
                                instruction, definition, labels, currentInstructionIndex)

OpcodeWord(definition) == Shl(Mask(definition.opcode, 6), 26)

FunctWord(word, definition) ==
    IF definition.funct # NoFunct THEN BitOr(word, Mask(definition.funct, 6)) ELSE word

EncodeRTypeInstruction(instruction, definition, labels, currentInstructionIndex) ==
    RTypeOperands(1, FunctWord(OpcodeWord(definition), definition),
                  instruction, definition, labels, currentInstructionIndex)

IsMemoryAccessInstruction(mnemonic) ==
    mnemonic \in {"lw", "sw", "lb", "sb", "lh", "sh", "lbu", "lhu"}

\* texts that /^\d+$/ matches, among the offset texts the parser can hand over
DecimalTexts == {"0", "4", "8", "16", "100"}

EncodeMemoryAccessInstruction(instruction, definition, word, labels) ==
    IF Len(instruction.operands) < 2 THEN Throw("Missing operands for memory access instruction", instruction.mnemonic)
    ELSE LET rt      == instruction.operands[1]
             address == instruction.operands[2]
         IN  IF address.type # "ADDRESS"
             THEN Throw("Second operand must be memory address", instruction.mnemonic)
             ELSE LET w1 == BitOr(word, Shl(Mask(rt.register, 5), 16))
                      w2 == BitOr(w1, Shl(Mask(address.register, 5), 21))
                      isLabel == /\ address.label # ""
                                 /\ address.offset = 0
                                 /\ address.label \notin DecimalTexts
                  IN  IF isLabel /\ address.label \notin DOMAIN labels
                      THEN Throw("Undefined label", address.label)
                      ELSE LET offset == IF isLabel THEN labels[address.label]
                                         ELSE address.offset
                           IN  Done(WordToBytes(BitOr(w2, Mask(offset, 16))), <<>>)

\* the operand loop of encodeITypeInstruction, from slot i on
RECURSIVE ITypeOperands(_, _, _, _, _, _, _)
ITypeOperands(i, word, pendingLabel, instruction, definition, labels, currentInstructionIndex) ==
    IF i > Len(definition.operands) THEN
        IF instruction.mnemonic \in BRANCH_MNEMONICS /\ pendingLabel # ""
        THEN Done(WordToBytes(word), <<Fixup(currentInstructionIndex, pendingLabel, "BRANCH")>>)
        ELSE Done(WordToBytes(word), <<>>)
    ELSE IF i > Len(instruction.operands) THEN Throw("Missing operand", instruction.mnemonic)
    ELSE LET operandDef == definition.operands[i]
             operand    == instruction.operands[i]
         IN  IF operand.type = "LABEL" THEN
                 IF operandDef.name = "label" /\ operand.label # ""
                 THEN ITypeOperands(i + 1, word, operand.label,
                                    instruction, definition, labels, currentInstructionIndex)
                 ELSE IF operand.label = "" \/ operand.label \notin DOMAIN labels
                 THEN Throw("Undefined label", operand.label)
                 ELSE ITypeOperands(i + 1, PlaceField(word, labels[operand.label], operandDef),
                                    pendingLabel, instruction, definition, labels,
                                    currentInstructionIndex)
             ELSE LET got == GetOperandValue(operand, operandDef, instruction, labels,
                                             currentInstructionIndex)
                  IN  IF ~got.ok THEN Throw("Undefined label", got.subject)
                      ELSE ITypeOperands(i + 1, PlaceField(word, got.value, operandDef),
                                         pendingLabel, instruction, definition, labels,
                                         currentInstructionIndex)

EncodeITypeInstruction(instruction, definition, labels, currentInstructionIndex) ==
    IF IsMemoryAccessInstruction(instruction.mnemonic)
    THEN EncodeMemoryAccessInstruction(instruction, definition, OpcodeWord(definition), labels)
    ELSE ITypeOperands(1, OpcodeWord(definition), "", instruction, definition, labels,
                       currentInstructionIndex)

EncodeJTypeInstruction(instruction, definition, currentInstructionIndex) ==
    LET word == OpcodeWord(definition)
        ops  == instruction.operands
    IN  IF Len(ops) >= 1 /\ ops[1].type = "LABEL" /\ ops[1].label # ""
        THEN Done(WordToBytes(word), <<Fixup(currentInstructionIndex, ops[1].label, "J")>>)
        ELSE IF Len(ops) >= 1 /\ ops[1].type = "IMMEDIATE"
        THEN Done(WordToBytes(BitOr(word, Mask(ops[1].immediate, 26))), <<>>)
        ELSE Done(WordToBytes(word), <<>>)

EncodeSpecialInstruction(instruction, definition) ==
    Done(WordToBytes(FunctWord(OpcodeWord(definition), definition)), <<>>)

\* encodeCP0Instruction with sel or-ed in whole
EncodeCP0InstructionUnmasked(instruction, definition) ==
    LET ops     == instruction.operands
        rsValue == IF instruction.mnemonic = "mfc0" THEN 0
                   ELSE IF instruction.mnemonic = "mtc0" THEN 4 ELSE 0
        w0 == BitOr(OpcodeWord(definition), Shl(Mask(rsValue, 5), 21))
        w1 == IF Len(ops) >= 1 /\ ops[1].type = "REGISTER"
              THEN BitOr(w0, Shl(Mask(ops[1].register, 5), 16)) ELSE w0
        w2 == IF Len(ops) >= 2 /\ ops[2].type = "REGISTER"
              THEN BitOr(w1, Shl(Mask(ops[2].register, 5), 11)) ELSE w1
        w3 == IF Len(ops) >= 3 /\ ops[3].type = "IMMEDIATE"
              THEN BitOr(w2, ops[3].immediate) ELSE w2
    IN  Done(WordToBytes(w3), <<>>)

EncodeCP0Instruction(instruction, definition) ==
    LET ops     == instruction.operands
        rsValue == IF instruction.mnemonic = "mfc0" THEN 0
                   ELSE IF instruction.mnemonic = "mtc0" THEN 4 ELSE 0
        w0 == BitOr(OpcodeWord(definition), Shl(Mask(rsValue, 5), 21))
        w1 == IF Len(ops) >= 1 /\ ops[1].type = "REGISTER"
              THEN BitOr(w0, Shl(Mask(ops[1].register, 5), 16)) ELSE w0
        w2 == IF Len(ops) >= 2 /\ ops[2].type = "REGISTER"
              THEN BitOr(w1, Shl(Mask(ops[2].register, 5), 11)) ELSE w1
        w3 == IF Len(ops) >= 3 /\ ops[3].type = "IMMEDIATE"
              THEN BitOr(w2, Mask(ops[3].immediate, 3)) ELSE w2
    IN  Done(WordToBytes(w3), <<>>)

\* ins[25:0] of eret, 0x2000018
ERET_LOW26 == 33554456

EncodeERETInstruction(instruction, definition) ==
    Done(WordToBytes(BitOr(OpcodeWord(definition), ERET_LOW26)), <<>>)

\* the Encoder constructor builds its PseudoExpander without a context
EncoderExpanderContext == NoContext

RECURSIVE EncodeInstruction(_, _, _)
\* the loop of encodePseudoInstruction over the expanded instructions
RECURSIVE EncodeExpanded(_, _, _, _, _)
\* one round of that loop, r the bytes of expanded[k] or its throw
EncodeExpandedStep(expanded, k, acc, labels, currentInstructionIndex, r) ==
    IF ~r.ok THEN [r EXCEPT !.fixups = acc.fixups \o r.fixups]
    ELSE EncodeExpanded(expanded, k + 1,
                        Done(acc.bytes \o r.bytes, acc.fixups \o r.fixups),
                        labels, currentInstructionIndex)

EncodeExpanded(expanded, k, acc, labels, currentInstructionIndex) ==
    IF k > Len(expanded) THEN acc
    ELSE EncodeExpandedStep(expanded, k, acc, labels, currentInstructionIndex,
                            EncodeInstruction(expanded[k], labels, currentInstructionIndex))

\* encodePseudoInstruction behind its call of the expander
EncodePseudoExpanded(instruction, expanded, labels, currentInstructionIndex) ==
    IF Len(expanded) = 0
    THEN Throw("Unable to expand pseudo instruction", instruction.mnemonic)
    ELSE EncodeExpanded(expanded, 1, Done(<<>>, <<>>), labels, currentInstructionIndex)

EncodePseudoInstruction(instruction, labels, currentInstructionIndex) ==
    EncodePseudoExpanded(instruction,
                         ExpandPseudoInstruction(instruction, EncoderExpanderContext),
                         labels, currentInstructionIndex)

\* the dispatch of encodeInstruction on the type of the definition found
EncodeDefined(instruction, definition, labels, currentInstructionIndex) ==
    IF definition.type = "R_TYPE"
    THEN EncodeRTypeInstruction(instruction, definition, labels, currentInstructionIndex)
    ELSE IF definition.type = "I_TYPE" THEN
        IF definition.encoding = "CP0" /\ instruction.mnemonic # "eret"
        THEN EncodeCP0Instruction(instruction, definition)
        ELSE EncodeITypeInstruction(instruction, definition, labels, currentInstructionIndex)
    ELSE IF definition.type = "J_TYPE"
    THEN EncodeJTypeInstruction(instruction, definition, currentInstructionIndex)
    ELSE IF definition.type = "SPECIAL" THEN
        IF definition.encoding = "CP0" /\ instruction.mnemonic = "eret"
        THEN EncodeERETInstruction(instruction, definition)
        ELSE EncodeSpecialInstruction(instruction, definition)
    ELSE Throw("Unsupported instruction type", definition.type)

EncodeInstruction(instruction, labels, currentInstructionIndex) ==
    IF ~HasInstruction(instruction.mnemonic) THEN
        IF HasPseudo(instruction.mnemonic)
        THEN EncodePseudoInstruction(instruction, labels, currentInstructionIndex)
        ELSE Throw("Unknown instruction", instruction.mnemonic)
    ELSE EncodeDefined(instruction, INSTRUCTION_LOOKUP(instruction.mnemonic),
                       labels, currentInstructionIndex)

\* instructionMemory[offset] ?? 0
ByteAt(memory, offset) == IF offset + 1 \in DOMAIN memory THEN memory[offset + 1] ELSE 0

\* the word as the 32-bit pattern ((b0 << 24) | (b1 << 16) | (b2 << 8) | b3)
ReadWordAtInstructionIndex(memory, index) ==
    LET offset == index * 4
        b0 == ByteAt(memory, offset)
        b1 == ByteAt(memory, offset + 1)
        b2 == ByteAt(memory, offset + 2)
        b3 == ByteAt(memory, offset + 3)
    IN  BitOr(BitOr(Shl(b0, 24), Shl(b1, 16)), BitOr(Shl(b2, 8), b3))

WriteWordAtInstructionIndex(memory, index, word) ==
    LET offset == index * 4
        bytes  == WordToBytes(word)
    IN  [k \in 1..(IF Len(memory) > offset + 4 THEN Len(memory) ELSE offset + 4) |->
            IF k > offset /\ k <= offset + 4 THEN bytes[k - offset]
            ELSE IF k <= Len(memory) THEN memory[k] ELSE 0]

\* 0xFC000000 and 0xFFFF0000 as 32-bit patterns
OPCODE_MASK == -67108864

UPPER16_MASK == -65536

\* the message is kept as the parts the template string puts together
\* addError pushing its error twice
AddErrorTwice(errors, message) ==
    Append(Append(errors, [type |-> "SEMANTIC", message |-> message]),
           [type |-> "SEMANTIC", message |-> message])

AddError(errors, message) ==
    Append(errors, [type |-> "SEMANTIC", message |-> message])

\* a jump patch that takes the byte address as the word index
PatchedWordByteTarget(fixup, currentWord, address) ==
    IF fixup.type = "J"
    THEN BitOr(BitAnd(currentWord, OPCODE_MASK), Mask(address, 26))
    ELSE LET branchAddress == fixup.instructionIndex * 4
             offset == Mask(Sar(address - (branchAddress + 4), 2), 16)
         IN  BitOr(BitAnd(currentWord, UPPER16_MASK), Mask(offset, 16))

\* a branch patch that measures from the branch instead of the next instruction
PatchedWordFromBranch(fixup, currentWord, address) ==
    IF fixup.type = "J"
    THEN BitOr(BitAnd(currentWord, OPCODE_MASK), Mask(ShruFast(address, 2), 26))
    ELSE LET branchAddress == fixup.instructionIndex * 4
             offset == Mask(Sar(address - branchAddress, 2), 16)
         IN  BitOr(BitAnd(currentWord, UPPER16_MASK), Mask(offset, 16))

PatchedWord(fixup, currentWord, address) ==
    IF fixup.type = "J"
    THEN BitOr(BitAnd(currentWord, OPCODE_MASK), Mask(ShruFast(address, 2), 26))
    ELSE IF fixup.type = "BRANCH"
    THEN LET branchAddress == fixup.instructionIndex * 4
             offset == Mask(Sar(address - (branchAddress + 4), 2), 16)
         IN  BitOr(BitAnd(currentWord, UPPER16_MASK), Mask(offset, 16))
    ELSE currentWord

\* the loop of resolveLabels from fixup k on: [memory, errors]
RECURSIVE ResolveFrom(_, _, _, _, _)
\* the loop leaving at the first undefined label
ResolveFromStopping(fixups, k, memory, errors, labels) ==
    IF k > Len(fixups) THEN [memory |-> memory, errors |-> errors]
    ELSE LET fixup == fixups[k]
         IN  IF fixup.label \notin DOMAIN labels
             THEN [memory |-> memory,
                   errors |-> AddError(errors, <<"Undefined label", fixup.label>>)]
             ELSE ResolveFrom(fixups, k + 1,
                              WriteWordAtInstructionIndex(memory, fixup.instructionIndex,
                                  PatchedWord(fixup,
                                      ReadWordAtInstructionIndex(memory, fixup.instructionIndex),
                                      labels[fixup.label])),
                              errors, labels)

ResolveFrom(fixups, k, memory, errors, labels) ==
    IF k > Len(fixups) THEN [memory |-> memory, errors |-> errors]
    ELSE LET fixup == fixups[k]
         IN  IF fixup.label \notin DOMAIN labels
             THEN ResolveFrom(fixups, k + 1, memory,
                              AddError(errors, <<"Undefined label", fixup.label>>), labels)
             ELSE ResolveFrom(fixups, k + 1,
                              WriteWordAtInstructionIndex(memory, fixup.instructionIndex,
                                  PatchedWord(fixup,
                                      ReadWordAtInstructionIndex(memory, fixup.instructionIndex),
                                      labels[fixup.label])),
                              errors, labels)

(***************************************************************************)
(* Parser.  A source program is a sequence of lines; the operands of an    *)
(* instruction line are the tokens the lexer hands over: a register        *)
(* (dollar, name without the $), a decimal number, an identifier, or an    *)
(* offset(register) group.                                                 *)
(***************************************************************************)
\* .data with the digits of its hexadecimal start address, or with none
DataLine(hex) ==
    [kind |-> "data", name |-> "", args |-> hex, address |-> NoAddress]

DataDefLine(name, type, values) ==
    [kind |-> "datadef", name |-> name, args |-> <<type, values>>, address |-> NoAddress]

TextLine == [kind |-> "text", name |-> "", args |-> <<>>, address |-> NoAddress]

LabelLine(name) == [kind |-> "label", name |-> name, args |-> <<>>, address |-> NoAddress]

InstrLine(mnemonic, args) ==
    [kind |-> "instruction", name |-> mnemonic, args |-> args, address |-> NoAddress]

TEXT_START == 0

\* 0x00010000
DATA_START == 65536

REGISTER_NAMES == <<
    "zero", "at", "v0", "v1", "a0", "a1", "a2", "a3",
    "t0", "t1", "t2", "t3", "t4", "t5", "t6", "t7",
    "s0", "s1", "s2", "s3", "s4", "s5", "s6", "s7",
    "t8", "t9", "k0", "k1", "gp", "sp", "fp", "ra" >>

ParserGetRegisterIndex(registerName) ==
    IF \E i \in DOMAIN REGISTER_NAMES : REGISTER_NAMES[i] = registerName
    THEN (CHOOSE i \in DOMAIN REGISTER_NAMES : REGISTER_NAMES[i] = registerName) - 1
    ELSE 0

DigitChars == <<"0", "1", "2", "3", "4", "5", "6", "7", "8", "9">>

\* the text of a decimal token
RECURSIVE DigitsText(_)
DigitsText(d) == IF d = <<>> THEN "" ELSE DigitChars[Head(d) + 1] \o DigitsText(Tail(d))

ParseRegister(tok) == RegOp(ParserGetRegisterIndex(tok.s))

ParseImmediate(tok) == ImmOp(ParseInt(tok))

ParseLabelReference(tok) == LabelOp(tok.s)

RECURSIVE HexValue(_)
HexValue(d) == IF d = <<>> THEN 0 ELSE HexValue(SubSeq(d, 1, Len(d) - 1)) * 16 + d[Len(d)]

ParseHexNumber(d) == HexValue(d)

HexChars == <<"0", "1", "2", "3", "4", "5", "6", "7", "8", "9", "a", "b", "c", "d", "e", "f">>

\* the text of a hexadecimal token behind its 0x
RECURSIVE HexDigitsText(_)
HexDigitsText(d) == IF d = <<>> THEN "" ELSE HexChars[Head(d) + 1] \o HexDigitsText(Tail(d))

\* offset(register) with a decimal or hexadecimal offset, an identifier, or
\* no offset at all; the label field keeps the text of the offset
ParserParseMemoryAddress(tok) ==
    IF tok.k = "memlabel"
    THEN AddrOp(0, ParserGetRegisterIndex(tok.s), tok.l)
    ELSE IF tok.k = "memhex"
    THEN AddrOp(IF tok.neg THEN -ParseHexNumber(tok.d) ELSE ParseHexNumber(tok.d),
                ParserGetRegisterIndex(tok.s),
                (IF tok.neg THEN "-0x" ELSE "0x") \o HexDigitsText(tok.d))
    ELSE IF tok.d # <<>>
    THEN AddrOp(ParseInt(tok), ParserGetRegisterIndex(tok.s),
                (IF tok.neg THEN "-" ELSE "") \o DigitsText(tok.d))
    ELSE AddrOp(0, ParserGetRegisterIndex(tok.s), "0")

ParserParseOperand(tok) ==
    IF tok.k = "dollar" THEN ParseRegister(tok)
    ELSE IF tok.k = "num" THEN ParseImmediate(tok)
    ELSE IF tok.k = "word" THEN ParseLabelReference(tok)
    ELSE ParserParseMemoryAddress(tok)

\* rt, offset(rs): without a leading register nothing is collected
ParseMemoryAccessInstruction(args) ==
    IF Len(args) >= 2 /\ args[1].k = "dollar"
    THEN <<ParseRegister(args[1]), ParserParseMemoryAddress(args[2])>>
    ELSE <<>>

\* the operands parseInstruction collects
ParseOperands(mnemonic, args) ==
    IF IsMemoryAccessInstruction(mnemonic) THEN ParseMemoryAccessInstruction(args)
    ELSE [i \in DOMAIN args |-> ParserParseOperand(args[i])]

\* the lengths of the strings of an .ascii, a string its character codes
RECURSIVE TotalSize(_)
TotalSize(values) ==
    IF values = <<>> THEN 0 ELSE Len(Head(values)) + TotalSize(Tail(values))

CalculateDataSize(type, values) ==
    IF type = "byte" THEN Len(values)
    ELSE IF type = "half" THEN Len(values) * 2
    ELSE IF type = "word" THEN Len(values) * 4
    ELSE IF type = "ascii" THEN TotalSize(values)
    ELSE IF type = "space" THEN (IF Len(values) > 0 THEN values[1] ELSE 0)
    ELSE 0

(***************************************************************************)
(* Disassembler.  The text it prints is kept as its parts: the mnemonic    *)
(* and the printed operands, a register name or a hexadecimal number.      *)
(***************************************************************************)
DISASM_REGISTER_NAMES == ExpanderRegisterNames

ParseInstructionWord(instruction) ==
    [op        |-> Mask(ShruFast(instruction, 26), 6),
     rs        |-> Mask(ShruFast(instruction, 21), 5),
     rt        |-> Mask(ShruFast(instruction, 16), 5),
     rd        |-> Mask(ShruFast(instruction, 11), 5),
     shamt     |-> Mask(ShruFast(instruction, 6), 5),
     funct     |-> Mask(instruction, 6),
     immediate |-> Mask(instruction, 16),
     offset    |-> Mask(instruction, 16),
     address   |-> Mask(instruction, 26)]

\* (value & 0x8000) ? (value | 0xffff0000) : value, for a 16-bit value
SignExtend16(value) == IF Bit(value, 15) = 1 THEN BitOr(value, UPPER16_MASK) ELSE value

RECURSIVE HexDigits(_)
HexDigits(n) == IF n < 16 THEN <<n>> ELSE Append(HexDigits(n \div 16), n % 16)

\* toHex(value, 16)
ToHex16(value) ==
    LET signed == SignExtend16(value)
    IN  IF signed < 0 THEN Tok("hex", "", TRUE, HexDigits(-signed))
        ELSE Tok("hex", "", FALSE, HexDigits(value))

\* 0x${n.toString(16)} of a non-negative number
HexText(n) == Tok("hex", "", n < 0, HexDigits(IF n < 0 THEN -n ELSE n))

RegText(r) == Tok("reg", DISASM_REGISTER_NAMES[r + 1], FALSE, <<>>)

Text(mnemonic, operands) == [mnemonic |-> mnemonic, operands |-> operands]

WordText(instruction) == Text(".word", <<instruction>>)

\* mnemonic by funct and the order its registers are printed in
RTypeText(instruction, f) ==
    LET rs == RegText(f.rs)
        rt == RegText(f.rt)
        rd == RegText(f.rd)
        sh == Tok("num", "", FALSE, Digits(f.shamt))
        three(m) == Text(m, <<rd, rs, rt>>)
    IN  CASE f.funct = 32 -> three("add")
          [] f.funct = 33 -> three("addu")
          [] f.funct = 34 -> three("sub")
          [] f.funct = 35 -> three("subu")
          [] f.funct = 36 -> three("and")
          [] f.funct = 37 -> three("or")
          [] f.funct = 38 -> three("xor")
          [] f.funct = 39 -> three("nor")
          [] f.funct = 42 -> three("slt")
          [] f.funct = 43 -> three("sltu")
          [] f.funct = 0  -> IF f.rs = 0 /\ f.rt = 0 /\ f.rd = 0 /\ f.shamt = 0
                             THEN Text("nop", <<>>)
                             ELSE Text("sll", <<rd, rt, sh>>)
          [] f.funct = 2  -> Text("srl", <<rd, rt, sh>>)
          [] f.funct = 3  -> Text("sra", <<rd, rt, sh>>)
          [] f.funct = 4  -> Text("sllv", <<rd, rt, rs>>)
          [] f.funct = 6  -> Text("srlv", <<rd, rt, rs>>)
          [] f.funct = 7  -> Text("srav", <<rd, rt, rs>>)
          [] f.funct = 24 -> Text("mult", <<rs, rt>>)
          [] f.funct = 25 -> Text("multu", <<rs, rt>>)
          [] f.funct = 26 -> Text("div", <<rs, rt>>)
          [] f.funct = 27 -> Text("divu", <<rs, rt>>)
          [] f.funct = 16 -> Text("mfhi", <<rd>>)
          [] f.funct = 18 -> Text("mflo", <<rd>>)
          [] f.funct = 17 -> Text("mthi", <<rs>>)
          [] f.funct = 19 -> Text("mtlo", <<rs>>)
          [] f.funct = 8  -> Text("jr", <<rs>>)
          [] f.funct = 9  -> Text("jalr", <<rd, rs>>)
          [] f.funct = 12 -> Text("syscall", <<>>)
          [] f.funct = 13 -> Text("break", <<>>)
          [] OTHER -> WordText(instruction)

\* address + 4 + (signExtend16(offset) << 2)
BranchTarget(f, address) == address + 4 + Shl(SignExtend16(f.offset), 2)

\* ((address >>> 28) << 28) | (addr << 2)
JumpTarget(f, address) == BitOr(Shl(ShruFast(address, 28), 28), Shl(f.address, 2))

CP0Text(instruction, f) ==
    LET sel == Mask(instruction, 3)
        rt  == RegText(f.rt)
        rd  == Tok("reg", "$" \o DigitsText(Digits(f.rd)), FALSE, <<>>)
        ops == IF sel = 0 THEN <<rt, rd>> ELSE <<rt, rd, Tok("num", "", FALSE, Digits(sel))>>
    IN  IF Mask(instruction, 26) = ERET_LOW26 THEN Text("eret", <<>>)
        ELSE IF f.rs = 0 THEN Text("mfc0", ops)
        ELSE IF f.rs = 4 THEN Text("mtc0", ops)
        ELSE WordText(instruction)

DisassembleInstruction(instruction, address) ==
    IF instruction = 0 THEN Text("nop", <<>>)
    ELSE LET f  == ParseInstructionWord(instruction)
             rs == RegText(f.rs)
             rt == RegText(f.rt)
             immHex == ToHex16(f.immediate)
             arith(m)  == Text(m, <<rt, rs, immHex>>)
             memory(m) == Text(m, <<rt, immHex, rs>>)
             target == HexText(BranchTarget(f, address))
         IN  CASE f.op = 0  -> RTypeText(instruction, f)
               [] f.op = 8  -> arith("addi")
               [] f.op = 9  -> arith("addiu")
               [] f.op = 12 -> arith("andi")
               [] f.op = 13 -> arith("ori")
               [] f.op = 14 -> arith("xori")
               [] f.op = 15 -> Text("lui", <<rt, immHex>>)
               [] f.op = 10 -> arith("slti")
               [] f.op = 11 -> arith("sltiu")
               [] f.op = 4  -> Text("beq", <<rt, rs, target>>)
               [] f.op = 5  -> Text("bne", <<rt, rs, target>>)
               [] f.op = 7  -> Text("bgtz", <<rs, target>>)
               [] f.op = 6  -> Text("blez", <<rs, target>>)
               [] f.op = 1  -> IF f.rt = 1 THEN Text("bgez", <<rs, target>>)
                               ELSE IF f.rt = 0 THEN Text("bltz", <<rs, target>>)
                               ELSE IF f.rt = 17 THEN Text("bgezal", <<rs, target>>)
                               ELSE IF f.rt = 16 THEN Text("bltzal", <<rs, target>>)
                               ELSE WordText(instruction)
               [] f.op = 32 -> memory("lb")
               [] f.op = 36 -> memory("lbu")
               [] f.op = 33 -> memory("lh")
               [] f.op = 37 -> memory("lhu")
               [] f.op = 40 -> memory("sb")
               [] f.op = 41 -> memory("sh")
               [] f.op = 35 -> memory("lw")
               [] f.op = 43 -> memory("sw")
               [] f.op = 2  -> Text("j", <<HexText(JumpTarget(f, address))>>)
               [] f.op = 3  -> Text("jal", <<HexText(JumpTarget(f, address))>>)
               [] f.op = 16 -> CP0Text(instruction, f)
               [] OTHER -> WordText(instruction)

(***************************************************************************)
(* Linker.  A fragment text is a sequence of blocks, each one source line  *)
(* written repeat times.  A junk line is one the parser reports an error   *)
(* for (an unexpected token); it holds no instruction.                     *)
(***************************************************************************)
BIOS_MAX_INSTRUCTIONS == 320

USER_APP_MAX_INSTRUCTIONS == 5120

\* 39680 / 4
MIDDLE_EMPTY_INSTRUCTIONS == 9920

INT_ENTRY_MAX_INSTRUCTIONS == 320

INT_HANDLER_MAX_INSTRUCTIONS == 704

\* 0xFFFF + 1
TOTAL_MEMORY_SIZE == 65536

JunkLine == [kind |-> "junk", name |-> "", args |-> <<>>, address |-> NoAddress]

BadCharLine == [kind |-> "badchar", name |-> "", args |-> <<>>, address |-> NoAddress]

Block(line, repeat) == [line |-> line, repeat |-> repeat]

HasParseErrors(asmCode) ==
    \E i \in DOMAIN asmCode : asmCode[i].line.kind = "junk" /\ asmCode[i].repeat > 0

\* one term of the sum in countInstructions: the instructions of a block, expanded
ExpandedLength(block) ==
    IF block.line.kind = "instruction"
    THEN block.repeat *
         Len(ExpandPseudoInstruction(
                 Instr(block.line.name, ParseOperands(block.line.name, block.line.args), 0),
                 NoContext))
    ELSE 0

\* the catch branch: lines that are not empty, comments, directives or labels
LineCount(block) ==
    IF block.line.kind \in {"instruction", "junk"} THEN block.repeat ELSE 0

RECURSIVE SumSeq(_)
SumSeq(s) == IF s = <<>> THEN 0 ELSE Head(s) + SumSeq(Tail(s))

\* counts the lines of a fragment instead of its expanded instructions
CountSourceLines(asmCode) == SumSeq([i \in DOMAIN asmCode |-> LineCount(asmCode[i])])

CountInstructions(asmCode) ==
    IF HasParseErrors(asmCode)
    THEN SumSeq([i \in DOMAIN asmCode |-> LineCount(asmCode[i])])
    ELSE SumSeq([i \in DOMAIN asmCode |-> ExpandedLength(asmCode[i])])

\* a region without its nop padding
RegionUnpadded(name, length, content, padding) ==
    [name |-> name, length |-> length, content |-> content, padding |-> 0]

Region(name, length, content, padding) ==
    [name |-> name, length |-> length, content |-> content, padding |-> padding]

LinkError(fragment, actual, max) ==
    [ok |-> FALSE, fragment |-> fragment, actual |-> actual, max |-> max, regions |-> <<>>]

Linked(regions) ==
    [ok |-> TRUE, fragment |-> "", actual |-> 0, max |-> 0, regions |-> regions]

LinkAll(biosASM, userASM, intEntryASM, intHandlerASM) ==
    LET biosInsCount       == CountInstructions(biosASM)
        userInsCount       == CountInstructions(userASM)
        intEntryInsCount   == CountInstructions(intEntryASM)
        intHandlerInsCount == CountInstructions(intHandlerASM)
        biosNopPadding        == BIOS_MAX_INSTRUCTIONS - biosInsCount
        userNopPadding        == USER_APP_MAX_INSTRUCTIONS - userInsCount
        middleEmptyNopPadding == MIDDLE_EMPTY_INSTRUCTIONS
        intEntryNopPadding    == INT_ENTRY_MAX_INSTRUCTIONS - intEntryInsCount
        intHandlerNopPadding  == INT_HANDLER_MAX_INSTRUCTIONS - intHandlerInsCount
        totalLength == biosInsCount + biosNopPadding + userInsCount + userNopPadding
                       + middleEmptyNopPadding + intEntryInsCount + intEntryNopPadding
                       + intHandlerInsCount + intHandlerNopPadding
    IN  IF biosInsCount > BIOS_MAX_INSTRUCTIONS
        THEN LinkError("BIOS", biosInsCount, BIOS_MAX_INSTRUCTIONS)
        ELSE IF userInsCount > USER_APP_MAX_INSTRUCTIONS
        THEN LinkError("User Application", userInsCount, USER_APP_MAX_INSTRUCTIONS)
        ELSE IF intEntryInsCount > INT_ENTRY_MAX_INSTRUCTIONS
        THEN LinkError("Interrupt Entry", intEntryInsCount, INT_ENTRY_MAX_INSTRUCTIONS)
        ELSE IF intHandlerInsCount > INT_HANDLER_MAX_INSTRUCTIONS
        THEN LinkError("Interrupt Handler", intHandlerInsCount, INT_HANDLER_MAX_INSTRUCTIONS)
        ELSE IF totalLength * 4 # TOTAL_MEMORY_SIZE
        THEN LinkError("IMEM", totalLength * 4, TOTAL_MEMORY_SIZE)
        ELSE Linked(<<
            Region("BIOS", biosInsCount, biosASM, biosNopPadding),
            Region("User Application", userInsCount, userASM, userNopPadding),
            Region("Empty Region", middleEmptyNopPadding, <<>>, middleEmptyNopPadding),
            Region("Interrupt Entry", intEntryInsCount, intEntryASM, intEntryNopPadding),
            Region("Interrupt Handler", intHandlerInsCount, intHandlerASM, intHandlerNopPadding) >>)

(***************************************************************************)
(* Merging the user's interrupt files with the fixed syscall parts.  A     *)
(* line of text is its indentation and the pieces behind it: words, the    *)
(* blanks or tabs between them, a colon, "#" with the comment behind it.   *)
(* id tells the lines of one text apart.                                   *)
(***************************************************************************)
SourceLine(indent, text, id) == [indent |-> indent, text |-> text, id |-> id]

\* line.trim()
Trim(line) == line.text

\* trimmed.startsWith('#')
StartsWithHash(trimmed) == Len(trimmed) >= 1 /\ trimmed[1] = "#"

\* trimmed.startsWith('j ') || trimmed === 'nop' || trimmed.startsWith('nop ')
IsVectorText(trimmed) ==
    \/ Len(trimmed) >= 2 /\ trimmed[1] = "j" /\ trimmed[2] = " "
    \/ trimmed = <<"nop">>
    \/ Len(trimmed) >= 2 /\ trimmed[1] = "nop" /\ trimmed[2] = " "

\* the line mergeInterruptEntry pads with
NopVector == SourceLine("", <<"nop">>, 0)

\* j _syscall with its comment, as loadSystemFiles takes it from the default file
SyscallEntryLine == SourceLine("", <<"j", " ", "_syscall", " ", "#", "syscall">>, 0)

\* the loop of mergeInterruptEntry from line k on
RECURSIVE MergeEntryFrom(_, _, _)
MergeEntryFrom(lines, k, acc) ==
    IF k > Len(lines) THEN acc
    ELSE LET line == lines[k]
             trimmed == Trim(line)
         IN  IF trimmed = <<>> \/ StartsWithHash(trimmed)
             THEN MergeEntryFrom(lines, k + 1,
                      IF ~acc.hasStartedVectors
                      THEN [acc EXCEPT !.resultLines = Append(@, line)] ELSE acc)
             ELSE IF IsVectorText(trimmed)
             THEN MergeEntryFrom(lines, k + 1,
                      IF acc.userVectorCount < 5
                      THEN [resultLines |-> Append(acc.resultLines, line),
                            userVectorCount |-> acc.userVectorCount + 1,
                            hasStartedVectors |-> TRUE]
                      ELSE [acc EXCEPT !.hasStartedVectors = TRUE])
             ELSE MergeEntryFrom(lines, k + 1,
                      IF ~acc.hasStartedVectors
                      THEN [acc EXCEPT !.resultLines = Append(@, line)] ELSE acc)

\* the vectors the entry is padded with after the loop
EntryPadding(acc) == [i \in 1..(5 - acc.userVectorCount) |-> NopVector]

MergeInterruptEntryFrom(acc, syscallEntryLine) ==
    acc.resultLines \o EntryPadding(acc) \o <<syscallEntryLine>>

MergeInterruptEntry(userEntryContent, syscallEntryLine) ==
    MergeInterruptEntryFrom(
        MergeEntryFrom(userEntryContent, 1,
                       [resultLines |-> <<>>, userVectorCount |-> 0,
                        hasStartedVectors |-> FALSE]),
        syscallEntryLine)

\* trimmed === '_syscall:' || trimmed.startsWith('_syscall:')
IsSyscallLabelText(trimmed) ==
    Len(trimmed) >= 2 /\ trimmed[1] = "_syscall" /\ trimmed[2] = ":"

\* the words that begin with _syscall
SyscallWords == {"_syscall", "_syscall_loop"}

\* trimmed.startsWith('_syscall')
StartsWithSyscall(trimmed) == Len(trimmed) >= 1 /\ trimmed[1] \in SyscallWords

\* trimmed.endsWith(':')
EndsWithColon(trimmed) == Len(trimmed) >= 1 /\ trimmed[Len(trimmed)] = ":"

\* the first line of the default file that is the _syscall label, 0 for none
SyscallStartIndex(defaultLines) ==
    IF \E i \in DOMAIN defaultLines : IsSyscallLabelText(Trim(defaultLines[i]))
    THEN CHOOSE i \in DOMAIN defaultLines :
             /\ IsSyscallLabelText(Trim(defaultLines[i]))
             /\ \A j \in 1..(i - 1) : ~IsSyscallLabelText(Trim(defaultLines[j]))
    ELSE 0

\* join('\n').trim() on lines: blank lines at both ends go, and the
\* indentation of the first line left
RECURSIVE TrimLines(_)
TrimLines(lines) ==
    IF lines = <<>> THEN <<>>
    ELSE IF Head(lines).text = <<>> THEN TrimLines(Tail(lines))
    ELSE IF lines[Len(lines)].text = <<>> THEN TrimLines(SubSeq(lines, 1, Len(lines) - 1))
    ELSE <<[Head(lines) EXCEPT !.indent = ""]>> \o Tail(lines)

BlankLine == SourceLine("", <<>>, 0)

\* the loop of mergeInterruptHandler over the user's lines from line k on
RECURSIVE CleanUserLinesFrom(_, _, _, _)
CleanUserLinesFrom(userLines, k, inSyscallSection, cleanedUserLines) ==
    IF k > Len(userLines) THEN cleanedUserLines
    ELSE LET line == userLines[k]
             trimmed == Trim(line)
         IN  IF IsSyscallLabelText(trimmed)
             THEN CleanUserLinesFrom(userLines, k + 1, TRUE, cleanedUserLines)
             ELSE IF /\ inSyscallSection /\ trimmed # <<>>
                     /\ ~StartsWithHash(trimmed) /\ EndsWithColon(trimmed)
             THEN IF ~StartsWithSyscall(trimmed)
                  THEN CleanUserLinesFrom(userLines, k + 1, FALSE,
                                          Append(cleanedUserLines, line))
                  ELSE CleanUserLinesFrom(userLines, k + 1, inSyscallSection,
                                          cleanedUserLines)
             ELSE CleanUserLinesFrom(userLines, k + 1, inSyscallSection,
                      IF ~inSyscallSection THEN Append(cleanedUserLines, line)
                      ELSE cleanedUserLines)

\* defaultLines.slice(syscallStartIndex).join('\n').trim()
SyscallPart(defaultLines) ==
    IF SyscallStartIndex(defaultLines) = 0 THEN <<>>
    ELSE TrimLines(SubSeq(defaultLines, SyscallStartIndex(defaultLines), Len(defaultLines)))

MergeInterruptHandler(userHandlerContent, defaultHandlerContent) ==
    IF SyscallPart(defaultHandlerContent) = <<>>
    THEN TrimLines(CleanUserLinesFrom(userHandlerContent, 1, FALSE, <<>>))
    ELSE TrimLines(CleanUserLinesFrom(userHandlerContent, 1, FALSE, <<>>))
             \o <<BlankLine>> \o SyscallPart(defaultHandlerContent)

(***************************************************************************)
(* State.  phase is the position of the run; the other variables are the   *)
(* fields of the linker's call, of the expander's caller, of the parser's  *)
(* context and of the encoder.                                             *)
(***************************************************************************)
VARIABLES
    phase,
    \* linkAll: its four arguments and what it returned or threw
    biosASM, userASM, intEntryASM, intHandlerASM, linkResult,
    \* expandPseudoInstruction: the argument, the result, the result expanded
    \* again, and the pushes, pops and $sp immediates expanded so far
    expIn, expOut, expTwice, pushes, pops, spSum,
    \* the source text, the loop the parser is in, and the parser's context
    source, position, parserLoop, currentSegment, programCounter, dataStartAddress,
    globalLabels, instructions, data, parseErrors,
    \* the encoder
    encodePosition, currentInstructionIndex, instructionMemory, dataMemory,
    labelFixups, errors,
    \* history: the words each source instruction produced, the expanded
    \* instruction behind each word, instruction memory as pass 1 left it
    wordsOf, emitted, pass1Memory,
    \* the disassembler's output for instruction memory
    listing,
    \* the AdvancedAssembler: the calls of assemble begun, the results they
    \* returned, and what each call of generateOutput did
    calls, results, outputs,
    \* mergeInterruptEntry and mergeInterruptHandler: the user's text and the
    \* merged text
    userContent, merged

linkVars == <<biosASM, userASM, intEntryASM, intHandlerASM, linkResult>>

expVars == <<expIn, expOut, expTwice, pushes, pops, spSum>>

parserVars == <<source, position, parserLoop, currentSegment, programCounter, dataStartAddress,
                globalLabels, instructions, data, parseErrors>>

encoderVars == <<encodePosition, currentInstructionIndex, instructionMemory, dataMemory,
                 labelFixups, errors, wordsOf, emitted, pass1Memory, listing>>

assembleVars == <<calls, results, outputs>>

mergeVars == <<userContent, merged>>

vars == <<phase, linkVars, expVars, parserVars, encoderVars, assembleVars, mergeVars>>

NoInstruction == Instr("", <<>>, NoAddress)

NoLabels == [l \in {} |-> 0]

LinkIdle ==
    /\ biosASM = <<>> /\ userASM = <<>> /\ intEntryASM = <<>> /\ intHandlerASM = <<>>
    /\ linkResult = LinkError("", 0, 0)

ExpIdle ==
    /\ expIn = NoInstruction /\ expOut = <<>> /\ expTwice = <<>>
    /\ pushes = 0 /\ pops = 0 /\ spSum = 0

\* no call of assemble yet
AssembleIdle == calls = 0 /\ results = <<>> /\ outputs = <<>>

MergeIdle == userContent = <<>> /\ merged = <<>>

\* the first call of assemble on a new AdvancedAssembler has begun
FirstCall == calls = 1 /\ results = <<>> /\ outputs = <<>>

\* the Parser constructor and initializeDefaultSegments
ParserInit ==
    /\ position = 1
    /\ parserLoop = "program"
    /\ currentSegment = "text"
    /\ programCounter = 0
    /\ dataStartAddress = DATA_START
    /\ globalLabels = NoLabels
    /\ instructions = <<>>
    /\ data = <<>>
    /\ parseErrors = <<>>

\* the head of Encoder.encode
EncoderInit ==
    /\ encodePosition = 1
    /\ currentInstructionIndex = 0
    /\ instructionMemory = <<>>
    /\ dataMemory = <<>>
    /\ labelFixups = <<>>
    /\ errors = <<>>
    /\ wordsOf = <<>>
    /\ emitted = <<>>
    /\ pass1Memory = <<>>
    /\ listing = <<>>

(***************************************************************************)
(* Linking: four fragments around their budgets, then one call of linkAll. *)
(***************************************************************************)
MaxPush == 1

NopLine == InstrLine("nop", <<>>)

PushLine == InstrLine("push", <<D("t0")>>)

\* fragments whose expanded count is budget - 1, budget or budget + 1, with
\* up to MaxPush two-word pseudo-instructions and possibly a junk line
Fragments(budget) ==
    { <<Block(JunkLine, j), Block(PushLine, p), Block(NopLine, budget - 2 * p + d)>> :
        j \in {0, 1}, p \in 0..MaxPush, d \in {-1, 0, 1} }

LinkInit ==
    /\ phase = "link"
    /\ biosASM \in Fragments(BIOS_MAX_INSTRUCTIONS)
    /\ userASM \in Fragments(USER_APP_MAX_INSTRUCTIONS)
    /\ intEntryASM \in Fragments(INT_ENTRY_MAX_INSTRUCTIONS)
    /\ intHandlerASM \in Fragments(INT_HANDLER_MAX_INSTRUCTIONS)
    /\ linkResult = LinkError("", 0, 0)
    /\ ExpIdle /\ source = <<>> /\ ParserInit /\ EncoderInit /\ AssembleIdle
    /\ MergeIdle

LinkAllCall ==
    /\ phase = "link"
    /\ linkResult' = LinkAll(biosASM, userASM, intEntryASM, intHandlerASM)
    /\ phase' = "linked"
    /\ UNCHANGED <<biosASM, userASM, intEntryASM, intHandlerASM,
                   expVars, parserVars, encoderVars, assembleVars,
                   mergeVars>>

LinkNext == LinkAllCall

LinkSpec == LinkInit /\ [][LinkNext]_vars

\* the four fragments of the call with the budgets the specification gives them
LinkedFragments == <<
    [name |-> "BIOS",              text |-> biosASM,       max |-> 320],
    [name |-> "User Application",  text |-> userASM,       max |-> 5120],
    [name |-> "Interrupt Entry",   text |-> intEntryASM,   max |-> 320],
    [name |-> "Interrupt Handler", text |-> intHandlerASM, max |-> 704] >>

\* the expanded instruction count of a fragment: parse, expand, count
ExpandedCount(asmCode) == SumSeq([i \in DOMAIN asmCode |-> ExpandedLength(asmCode[i])])

AllFragmentsParse == \A i \in 1..4 : ~HasParseErrors(LinkedFragments[i].text)

RegionOf(name) ==
    linkResult.regions[CHOOSE k \in DOMAIN linkResult.regions :
                           linkResult.regions[k].name = name]

C14_CountInstructions ==
    phase = "linked" =>
        IF linkResult.ok
        THEN \A i \in 1..4 :
                 RegionOf(LinkedFragments[i].name).length
                     = ExpandedCount(LinkedFragments[i].text)
        ELSE \E i \in 1..4 :
                 /\ linkResult.fragment = LinkedFragments[i].name
                 /\ linkResult.actual = ExpandedCount(LinkedFragments[i].text)

\* the same for fragments the parser accepts
C14_CountOfParsedFragments == AllFragmentsParse => C14_CountInstructions

MaxSeq == 2

Mnemonics ==
    {INSTRUCTION_SET[i].mnemonic : i \in DOMAIN INSTRUCTION_SET}
        \cup {PSEUDO_INSTRUCTIONS[i].mnemonic : i \in DOMAIN PSEUDO_INSTRUCTIONS}

LiImmediates ==
    {-2147483647 - 1, -65536, -32769, -32768, -1, 0, 5, 32767, 32768, 65535, 65536,
     305419896, 2147483647}

ExpanderRegisters == {0, 8, 29}

\* the registers jg and jle compare: $zero, $at, $t0, $t1
CompareRegisters == {0, 1, 8, 9}

\* operand lists of every length the templates look at, complete and short
OperandLists ==
    { <<>>, <<RegOp(8)>>, <<RegOp(8), RegOp(9)>>, <<RegOp(8), LabelOp("L0")>>,
      <<RegOp(8), ImmOp(5)>>, <<RegOp(8), RegOp(9), RegOp(10)>>,
      <<RegOp(8), RegOp(9), LabelOp("L0")>>, <<LabelOp("L0")>> }

ExpanderInputs ==
    {Instr(m, ops, 0) : m \in Mnemonics, ops \in OperandLists}
        \cup {Instr("li", <<RegOp(r), ImmOp(i)>>, 4) : r \in ExpanderRegisters, i \in LiImmediates}
        \cup {Instr(m, <<RegOp(r)>>, 4) : m \in {"push", "pop"}, r \in ExpanderRegisters}
        \cup {Instr(m, <<RegOp(8), AddrOp(4, 29, "4")>>, 4) : m \in {"lw", "sw"}}
        \cup {Instr(m, <<RegOp(r1), RegOp(r2), LabelOp(l)>>, 4) :
                  m \in {"jg", "jle"}, r1 \in CompareRegisters, r2 \in CompareRegisters,
                  l \in {"L0", "x"}}

\* the sum of the immediates of the instructions that add to $sp
RECURSIVE SpImmediates(_)
SpImmediates(list) ==
    IF list = <<>> THEN 0
    ELSE LET i == Head(list)
         IN  (IF /\ i.mnemonic = "addiu" /\ Len(i.operands) = 3
                 /\ i.operands[1] = RegOp(29) /\ i.operands[2] = RegOp(29)
              THEN i.operands[3].immediate ELSE 0) + SpImmediates(Tail(list))

IsStackOp(instruction) ==
    instruction.mnemonic \in {"push", "pop"} /\ Len(instruction.operands) >= 1

ExpandInit ==
    /\ phase = "expand"
    /\ ExpIdle /\ LinkIdle /\ source = <<>> /\ ParserInit /\ EncoderInit /\ AssembleIdle
    /\ MergeIdle

Expand(instruction) ==
    /\ phase \in {"expand", "expanded", "expandedTwice"}
    \* a run is single expansions, then a sequence of at most MaxSeq pushes and pops
    /\ IF IsStackOp(instruction) THEN pushes + pops < MaxSeq ELSE pushes + pops = 0
    /\ expIn' = instruction
    /\ expOut' = ExpandPseudoInstruction(instruction, NoContext)
    /\ expTwice' = <<>>
    /\ pushes' = IF IsStackOp(instruction) /\ instruction.mnemonic = "push"
                 THEN pushes + 1 ELSE pushes
    /\ pops' = IF IsStackOp(instruction) /\ instruction.mnemonic = "pop"
               THEN pops + 1 ELSE pops
    /\ spSum' = IF IsStackOp(instruction) THEN spSum + SpImmediates(expOut') ELSE spSum
    /\ phase' = "expanded"
    /\ UNCHANGED <<linkVars, parserVars, encoderVars, assembleVars,
                   mergeVars>>

\* the result handed back, as encodePseudoInstruction and a second pass do
ExpandAgain ==
    /\ phase = "expanded"
    /\ expTwice' = ExpandAll(expOut, NoContext)
    /\ phase' = "expandedTwice"
    /\ UNCHANGED <<expIn, expOut, pushes, pops, spSum, linkVars, parserVars, encoderVars,
                   assembleVars,
                   mergeVars>>

ExpandNext == (\E instruction \in ExpanderInputs : Expand(instruction)) \/ ExpandAgain

ExpandSpec == ExpandInit /\ [][ExpandNext]_vars

Expanded == phase \in {"expanded", "expandedTwice"}

\* the mnemonic and the operands of each instruction of a list
Shape(list) == [i \in DOMAIN list |-> <<list[i].mnemonic, list[i].operands>>]

\* C6: li rd, imm with an immediate operand expands to the single
\* instruction addi rd, $zero, imm when -32768 <= imm <= 32767, and otherwise
\* to lui rd, hi then ori rd, rd, lo, where hi and lo are the unsigned upper
\* and lower 16 bits of imm as a 32-bit value; 32767 and -32768 give one
\* instruction, 32768 and -32769 give two.
C6_LoadImmediate ==
    (/\ Expanded /\ expIn.mnemonic = "li" /\ Len(expIn.operands) = 2
     /\ expIn.operands[1].type = "REGISTER" /\ expIn.operands[2].type = "IMMEDIATE") =>
        LET rd  == expIn.operands[1]
            imm == expIn.operands[2].immediate
        IN  /\ IF -32768 <= imm /\ imm <= 32767
               THEN Shape(expOut) = << <<"addi", <<rd, RegOp(0), ImmOp(imm)>> >> >>
               ELSE /\ Len(expOut) = 2
                    /\ \E hi \in 0..65535, lo \in {imm % 65536} :
                           /\ (IF hi >= 32768 THEN hi - 65536 ELSE hi) * 65536 + lo = imm
                           /\ Shape(expOut) = << <<"lui", <<rd, ImmOp(hi)>> >>,
                                                 <<"ori", <<rd, rd, ImmOp(lo)>> >> >>
            /\ imm \in {32767, -32768} => Len(expOut) = 1
            /\ imm \in {32768, -32769} => Len(expOut) = 2

\* li $t0, -32769 has become lui $t0, 65535; ori $t0, $t0, 32767
C6_Witness ==
    /\ Expanded /\ expIn.mnemonic = "li"
    /\ expIn.operands = <<RegOp(8), ImmOp(-32769)>>
    /\ Shape(expOut) = << <<"lui", <<RegOp(8), ImmOp(65535)>> >>,
                          <<"ori", <<RegOp(8), RegOp(8), ImmOp(32767)>> >> >>

\* C9: an instruction whose mnemonic is not a pseudo-instruction comes back
\* as the one-element list holding it, unchanged; no instruction of any
\* expansion has a pseudo-instruction mnemonic; expanding the elements of a
\* result again returns the same list.
C9_ExpandIdempotent ==
    /\ (Expanded /\ ~HasPseudo(expIn.mnemonic)) => expOut = <<expIn>>
    /\ \A i \in DOMAIN expOut : ~HasPseudo(expOut[i].mnemonic)
    /\ phase = "expandedTwice" => expTwice = expOut

\* abs has been expanded to three instructions, and these expanded again
C9_Witness ==
    /\ phase = "expandedTwice"
    /\ expIn.mnemonic = "abs" /\ Len(expIn.operands) = 2
    /\ Len(expOut) = 3
    /\ expTwice = expOut

\* C10: push r expands to addiu $sp, $sp, -4; sw r, 0($sp) and pop r to
\* lw r, 0($sp); addiu $sp, $sp, 4, so after as many pushes as pops the
\* $sp immediates of the expanded instructions sum to zero.
C10_PushPop ==
    LET r  == expIn.operands[1]
        sp == RegOp(29)
        slot(o) == o.type = "ADDRESS" /\ o.offset = 0 /\ o.register = 29
    IN  /\ (Expanded /\ expIn.mnemonic = "push" /\ Len(expIn.operands) = 1) =>
               /\ Len(expOut) = 2
               /\ Shape(expOut)[1] = <<"addiu", <<sp, sp, ImmOp(-4)>> >>
               /\ expOut[2].mnemonic = "sw" /\ Len(expOut[2].operands) = 2
               /\ expOut[2].operands[1] = r /\ slot(expOut[2].operands[2])
        /\ (Expanded /\ expIn.mnemonic = "pop" /\ Len(expIn.operands) = 1) =>
               /\ Len(expOut) = 2
               /\ expOut[1].mnemonic = "lw" /\ Len(expOut[1].operands) = 2
               /\ expOut[1].operands[1] = r /\ slot(expOut[1].operands[2])
               /\ Shape(expOut)[2] = <<"addiu", <<sp, sp, ImmOp(4)>> >>
        /\ pushes = pops => spSum = 0

\* one push and one pop have been expanded, the pop last
C10_Witness ==
    /\ Expanded /\ expIn.mnemonic = "pop" /\ Len(expIn.operands) = 1
    /\ pushes = 1 /\ pops = 1

\* C11: jg r1, r2, label expands to exactly slt $at, r2, r1; bne $at, $zero,
\* label and jle r1, r2, label to exactly slt $at, r1, r2; beq $at, $zero,
\* label, for all registers r1, r2 and every label operand.
C11_JgJle ==
    LET r1    == expIn.operands[1]
        r2    == expIn.operands[2]
        label == expIn.operands[3]
        asked == /\ Expanded /\ Len(expIn.operands) = 3
                 /\ r1.type = "REGISTER" /\ r2.type = "REGISTER" /\ label.type = "LABEL"
    IN  /\ (asked /\ expIn.mnemonic = "jg") =>
               Shape(expOut) = << <<"slt", <<RegOp(1), r2, r1>> >>,
                                  <<"bne", <<RegOp(1), RegOp(0), label>> >> >>
        /\ (asked /\ expIn.mnemonic = "jle") =>
               Shape(expOut) = << <<"slt", <<RegOp(1), r1, r2>> >>,
                                  <<"beq", <<RegOp(1), RegOp(0), label>> >> >>

\* jg $t0, $t1, x has been expanded
C11_Witness ==
    /\ Expanded /\ expIn.mnemonic = "jg"
    /\ expIn.operands = <<RegOp(8), RegOp(9), LabelOp("x")>>
    /\ Len(expOut) = 2 /\ expOut[1].mnemonic = "slt"

\* the operand a template token stands for: 1, 2, 3 for $1, $2, $3, else 0
PlaceholderIndex(tok) ==
    IF tok.k # "dollar" THEN 0
    ELSE IF tok.s = "$1" THEN 1 ELSE IF tok.s = "$2" THEN 2 ELSE IF tok.s = "$3" THEN 3 ELSE 0

\* the highest placeholder index the template of m uses
HighestPlaceholder(m) ==
    LET expansion == PSEUDO_INSTRUCTION_LOOKUP(m).expansion
        used == UNION { {PlaceholderIndex(expansion[i][j]) : j \in DOMAIN expansion[i]} :
                            i \in DOMAIN expansion }
    IN  CHOOSE n \in used \cup {0} : \A k \in used : k <= n

\* a pseudo-instruction with fewer operands than its template asks for
HasShortOperands ==
    /\ Expanded /\ HasPseudo(expIn.mnemonic)
    /\ Len(expIn.operands) < HighestPlaceholder(expIn.mnemonic)

\* C20: a template-expanded pseudo-instruction given fewer operands than the
\* highest placeholder index of its template is rejected: the expansion
\* never returns an instruction in which that operand is left out, each
\* returned instruction has the operands its template line names.
C20_ShortOperandsRejected ==
    HasShortOperands =>
        LET expansion == PSEUDO_INSTRUCTION_LOOKUP(expIn.mnemonic).expansion
        IN  \A k \in DOMAIN expOut \cap DOMAIN expansion :
                Len(expOut[k].operands) = Len(expansion[k]) - 1

\* what the expander returns for it: every line of the template, and a line
\* without the operand that is missing
C20_ShortOperandsLeftOut ==
    HasShortOperands =>
        LET expansion == PSEUDO_INSTRUCTION_LOOKUP(expIn.mnemonic).expansion
        IN  /\ Len(expOut) = Len(expansion)
            /\ \E k \in DOMAIN expOut : Len(expOut[k].operands) < Len(expansion[k]) - 1

(***************************************************************************)
(* Merging: one call of mergeInterruptEntry or of mergeInterruptHandler on *)
(* a user text of up to MaxEntryLines or MaxHandlerLines lines.            *)
(***************************************************************************)
MaxEntryLines == 6

MaxHandlerLines == 5

\* what a line of a user's entry file may be: a vector written with a
\* blank or with a tab, a comment, another instruction
EntryLineTexts ==
    { <<"j", " ", "handler">>, <<"j", "\t", "handler">>,
      <<"nop", " ", "#", "reserved">>, <<"#", "note">>, <<"push", " ", "$t0">> }

\* what a line of a user's handler file may be
HandlerLineTexts ==
    { <<"_syscall", ":">>, <<"_syscall_loop", ":">>, <<"interruptServer", ":">>,
      <<"interruptServer", ":", " ", "#", "keyboard">>, <<"nop">>, <<"#", "note">>, <<>> }

\* the first words of those lines
HandlerWords == {t[1] : t \in HandlerLineTexts \ {<<>>}}

\* the texts of up to n lines, each line one of texts, numbered from 1
TextsOf(texts, n) ==
    UNION { {[i \in 1..len |-> SourceLine("", f[i], i)] : f \in [1..len -> texts]} :
            len \in 0..n }

\* the default handler file: a handler, then the _syscall block to its end
DefaultHandler ==
    << SourceLine("", <<"interruptServer0", ":">>, 101),
       SourceLine("  ", <<"eret">>, 102),
       SourceLine("", <<"_syscall", ":">>, 103),
       SourceLine("  ", <<"#", "syscall">>, 104),
       SourceLine("  ", <<"push", " ", "$t0">>, 105),
       SourceLine("  ", <<"eret">>, 106),
       SourceLine("", <<>>, 107) >>

MergeInit ==
    /\ phase = "merge"
    /\ ExpIdle /\ LinkIdle /\ source = <<>> /\ ParserInit /\ EncoderInit /\ AssembleIdle
    /\ MergeIdle

\* loadSystemFiles: mergeInterruptEntry(userIntEntry, syscallEntryLine)
MergeEntryCall ==
    /\ phase = "merge"
    /\ \E text \in TextsOf(EntryLineTexts, MaxEntryLines) :
           /\ userContent' = text
           /\ merged' = MergeInterruptEntry(text, SyscallEntryLine)
    /\ phase' = "mergedEntry"
    /\ UNCHANGED <<linkVars, expVars, parserVars, encoderVars, assembleVars>>

\* loadSystemFiles: mergeInterruptHandler(userIntHandler, defaultIntHandler)
MergeHandlerCall ==
    /\ phase = "merge"
    /\ \E text \in TextsOf(HandlerLineTexts, MaxHandlerLines) :
           /\ userContent' = text
           /\ merged' = MergeInterruptHandler(text, DefaultHandler)
    /\ phase' = "mergedHandler"
    /\ UNCHANGED <<linkVars, expVars, parserVars, encoderVars, assembleVars>>

MergeNext == MergeEntryCall \/ MergeHandlerCall

MergeSpec == MergeInit /\ [][MergeNext]_vars

\* a line whose instruction is j or nop, as the lexer reads it: blanks and
\* tabs alike part the mnemonic from what follows
IsVectorLine(line) == line.text # <<>> /\ line.text[1] \in {"j", "nop"}

UserVectors == SelectSeq(userContent, IsVectorLine)

\* the vector lines of the merged entry in front of its last line
MergedVectors == SelectSeq(SubSeq(merged, 1, Len(merged) - 1), IsVectorLine)

\* C15: for any user entry text the merged entry has exactly five vector
\* lines (j or nop lines): the user's first five in their order, or all of
\* the user's followed by nop lines up to five; no sixth or later user
\* vector appears; the fixed syscall vector line is the last line.
C15_MergedEntry ==
    phase = "mergedEntry" =>
        /\ Len(MergedVectors) = 5
        /\ \A i \in 1..5 :
               i <= Len(MergedVectors) =>
                   IF i <= Len(UserVectors) THEN MergedVectors[i] = UserVectors[i]
                   ELSE MergedVectors[i] = NopVector
        /\ merged # <<>> /\ merged[Len(merged)] = SyscallEntryLine

\* no vector of the user's text is written with a tab behind its mnemonic
VectorsUseBlanks ==
    \A i \in DOMAIN userContent :
        IsVectorLine(userContent[i]) => IsVectorText(Trim(userContent[i]))

\* the same for texts whose vectors are written with a blank
C15_MergedEntryOfBlankSeparated == VectorsUseBlanks => C15_MergedEntry

\* a line that defines a label, as the lexer reads it: a word and a colon,
\* whatever follows
IsLabelDefinition(line) == Len(line.text) >= 2 /\ line.text[2] = ":"

DefinesSyscall(line) == IsLabelDefinition(line) /\ line.text[1] = "_syscall"

\* the lines of a text outside its _syscall blocks, a block running from a
\* _syscall: line up to, not including, the next label definition
RECURSIVE OutsideSyscallBlock(_, _)
OutsideSyscallBlock(lines, inBlock) ==
    IF lines = <<>> THEN <<>>
    ELSE IF DefinesSyscall(Head(lines)) THEN OutsideSyscallBlock(Tail(lines), TRUE)
    ELSE IF IsLabelDefinition(Head(lines))
    THEN <<Head(lines)>> \o OutsideSyscallBlock(Tail(lines), FALSE)
    ELSE IF inBlock THEN OutsideSyscallBlock(Tail(lines), TRUE)
    ELSE <<Head(lines)>> \o OutsideSyscallBlock(Tail(lines), FALSE)

\* the lines of a text that are not blank, each as its words and its number
Written(lines) ==
    LET kept == SelectSeq(lines, LAMBDA l : l.text # <<>>)
    IN  [i \in DOMAIN kept |-> <<kept[i].text, kept[i].id>>]

\* the default file from its _syscall: line to its end
DefaultSyscallBlock == SubSeq(DefaultHandler, 3, Len(DefaultHandler))

\* C16: the merged handler is the user's lines with the user's own
\* _syscall block removed (from the user's _syscall: line up to, not
\* including, the next label definition), every other user line kept in
\* order, followed by the default file's block from _syscall: to its end;
\* the result defines the label _syscall exactly once.  Blank lines and
\* indentation are left out of the comparison.
C16_MergedHandler ==
    phase = "mergedHandler" =>
        /\ Written(merged)
               = Written(OutsideSyscallBlock(userContent, FALSE)) \o Written(DefaultSyscallBlock)
        /\ Cardinality({i \in DOMAIN merged : DefinesSyscall(merged[i])}) = 1

\* every label of the user's text stands alone on its line and none but
\* _syscall begins with _syscall
LabelsStandAlone ==
    \A i \in DOMAIN userContent :
        IsLabelDefinition(userContent[i]) =>
            /\ Len(userContent[i].text) = 2
            /\ userContent[i].text[1] \in {"_syscall"} \cup (HandlerWords \ SyscallWords)

\* the same for such texts
C16_MergedHandlerOfPlainLabels == LabelsStandAlone => C16_MergedHandler

(***************************************************************************)
(* The two instructions of a compare-and-branch expansion run on a         *)
(* register file: slt writes 1 or 0 to its destination from the signed     *)
(* order of its sources ($zero stays 0), bne and beq compare.              *)
(***************************************************************************)
RegisterValues == {-2147483647 - 1, -1, 0, 1, 2147483647}

\* register files over the compared registers, $zero holding 0
RegisterFiles == {f \in [CompareRegisters -> RegisterValues] : f[0] = 0}

ExecSlt(instruction, regs) ==
    LET rd == instruction.operands[1].register
        rs == instruction.operands[2].register
        rt == instruction.operands[3].register
    IN  IF rd = 0 THEN regs
        ELSE [regs EXCEPT ![rd] = IF regs[rs] < regs[rt] THEN 1 ELSE 0]

BranchTaken(instruction, regs) ==
    LET a == regs[instruction.operands[1].register]
        b == regs[instruction.operands[2].register]
    IN  IF instruction.mnemonic = "bne" THEN a # b ELSE a = b

\* whether slt; branch takes its branch from the register file regs
TakesBranch(expanded, regs) == BranchTaken(expanded[2], ExecSlt(expanded[1], regs))

ComparesRegisters ==
    /\ Expanded /\ Len(expIn.operands) = 3 /\ Len(expOut) = 2
    /\ expIn.operands[1].type = "REGISTER" /\ expIn.operands[2].type = "REGISTER"
    /\ expIn.operands[1].register \in CompareRegisters
    /\ expIn.operands[2].register \in CompareRegisters

\* C19: run with MIPS semantics on any signed register values, the
\* expansion of jg r1, r2, L takes the branch exactly when r1 > r2 and the
\* expansion of jle r1, r2, L takes the branch exactly when r1 <= r2.
C19_JgJleBranch ==
    \A regs \in RegisterFiles :
        LET v1 == regs[expIn.operands[1].register]
            v2 == regs[expIn.operands[2].register]
        IN  /\ (ComparesRegisters /\ expIn.mnemonic = "jg") =>
                   (TakesBranch(expOut, regs) <=> v1 > v2)
            /\ (ComparesRegisters /\ expIn.mnemonic = "jle") =>
                   (TakesBranch(expOut, regs) <=> v1 <= v2)

\* the jg half of C19 alone
C19_JgBranch ==
    \A regs \in RegisterFiles :
        (ComparesRegisters /\ expIn.mnemonic = "jg") =>
            (TakesBranch(expOut, regs)
                <=> regs[expIn.operands[1].register] > regs[expIn.operands[2].register])

\* what the expansion of jle does: it branches exactly when r1 >= r2
C19_JleBranchesOnGreaterOrEqual ==
    \A regs \in RegisterFiles :
        (ComparesRegisters /\ expIn.mnemonic = "jle") =>
            (TakesBranch(expOut, regs)
                <=> regs[expIn.operands[1].register] >= regs[expIn.operands[2].register])

(***************************************************************************)
(* Assembling one source text: the parser takes it line by line, the       *)
(* encoder then takes the text segment instruction by instruction (pass    *)
(* 1), encodes the data and resolves the fixups (pass 2).                  *)
(***************************************************************************)
\* what assemble returns
AssemblyResult(success, errs, instructionBytes, dataBytes, symbolTable) ==
    [success |-> success, errors |-> errs, instructionMemory |-> instructionBytes,
     dataMemory |-> dataBytes, symbolTable |-> symbolTable]

\* the return for a context with errors: the encoder is not constructed
ParseFailure(contextErrors, symbolTable) ==
    AssemblyResult(FALSE, contextErrors, <<>>, <<>>, symbolTable)

\* a result that calls the assembly a success whatever the encoder reported
EncodeResultIgnoringErrors(encodingErrors, instructionBytes, dataBytes, symbolTable) ==
    AssemblyResult(TRUE, <<>>, instructionBytes, dataBytes, symbolTable)

\* the two returns behind encoder.encode(); context.errors is empty there
EncodeResult(encodingErrors, instructionBytes, dataBytes, symbolTable) ==
    IF Len(encodingErrors) > 0
    THEN AssemblyResult(FALSE, encodingErrors, instructionBytes, dataBytes, symbolTable)
    ELSE AssemblyResult(TRUE, <<>>, instructionBytes, dataBytes, symbolTable)

AddParseError(message) == Append(parseErrors, [type |-> "SYNTAX", message |-> message])

\* .data [address]
ParseDataSegment(line) ==
    /\ line.kind = "data" /\ parserLoop = "program"
    /\ currentSegment' = "data"
    /\ dataStartAddress' = IF line.args # <<>> THEN ParseHexNumber(line.args)
                           ELSE dataStartAddress
    /\ programCounter' = dataStartAddress'
    /\ parserLoop' = "data"
    /\ UNCHANGED <<globalLabels, instructions, data, parseErrors>>

\* .text
ParseTextSegment(line) ==
    /\ line.kind = "text" /\ parserLoop \in {"program", "data"}
    /\ currentSegment' = "text"
    /\ programCounter' = TEXT_START
    /\ parserLoop' = "text"
    /\ UNCHANGED <<dataStartAddress, globalLabels, instructions, data, parseErrors>>

\* name: .type values, in the data segment
ParseDataDefinition(line) ==
    /\ line.kind = "datadef" /\ parserLoop = "data" /\ line.name # ""
    /\ data' = Append(data, [type |-> line.args[1], values |-> line.args[2],
                             address |-> programCounter,
                             size |-> CalculateDataSize(line.args[1], line.args[2])])
    /\ globalLabels' = (line.name :> programCounter) @@ globalLabels
    /\ programCounter' = programCounter + CalculateDataSize(line.args[1], line.args[2])
    /\ UNCHANGED <<parserLoop, currentSegment, dataStartAddress, instructions, parseErrors>>

\* .type values, in the data segment
ParseDataDefinitionWithoutLabel(line) ==
    /\ line.kind = "datadef" /\ parserLoop = "data" /\ line.name = ""
    /\ data' = Append(data, [type |-> line.args[1], values |-> line.args[2],
                             address |-> programCounter,
                             size |-> CalculateDataSize(line.args[1], line.args[2])])
    /\ programCounter' = programCounter + CalculateDataSize(line.args[1], line.args[2])
    /\ UNCHANGED <<parserLoop, currentSegment, dataStartAddress, globalLabels, instructions,
                   parseErrors>>

\* name:
ParseLabel(line) ==
    /\ line.kind = "label" /\ parserLoop \in {"program", "text"}
    /\ globalLabels' = (line.name :> programCounter) @@ globalLabels
    /\ UNCHANGED <<parserLoop, currentSegment, programCounter, dataStartAddress,
                   instructions, data, parseErrors>>

\* mnemonic operands
ParseInstruction(line) ==
    /\ line.kind = "instruction" /\ parserLoop \in {"program", "text"}
    \* pushed to the segment context.currentSegment names; the encoder reads
    \* the text segment's instructions only
    /\ instructions' = IF currentSegment = "text"
                       THEN Append(instructions,
                                   Instr(line.name, ParseOperands(line.name, line.args),
                                         programCounter))
                       ELSE instructions
    /\ programCounter' = programCounter + 4
    /\ UNCHANGED <<parserLoop, currentSegment, dataStartAddress, globalLabels, data,
                   parseErrors>>

\* a character the lexer knows no token for: the lexer records the error
\* and the parser never sees the character
LexerError(line) ==
    /\ line.kind = "badchar"
    /\ parseErrors' = AddParseError(<<"Unexpected character">>)
    /\ UNCHANGED <<parserLoop, currentSegment, programCounter, dataStartAddress,
                   globalLabels, instructions, data>>

\* context.errors as parse returns it: the lexer's errors, then the
\* parser's list, which began as a copy of the lexer's
ContextErrors(errs) ==
    SelectSeq(errs, LAMBDA e : e.message = <<"Unexpected character">>) \o
    SelectSeq(errs, LAMBDA e : e.message = <<"Unexpected character">>) \o
    SelectSeq(errs, LAMBDA e : e.message # <<"Unexpected character">>)

\* a token none of the loops expects
ParseUnexpected(line) ==
    /\ \/ line.kind = "junk"
       \/ line.kind \in {"data", "text"} /\ parserLoop = "text"
       \/ line.kind = "data" /\ parserLoop = "data"
       \/ line.kind \in {"label", "instruction"} /\ parserLoop = "data"
       \/ line.kind = "datadef" /\ parserLoop # "data"
    /\ parseErrors' = AddParseError(<<"Unexpected token", line.kind>>)
    /\ UNCHANGED <<parserLoop, currentSegment, programCounter, dataStartAddress,
                   globalLabels, instructions, data>>

\* one round of the parser's loop; after the last line assemble goes on to
\* the encoder, or returns the parse errors
ParseLine ==
    /\ phase = "parse" /\ position <= Len(source)
    /\ LET line == source[position]
       IN  \/ ParseDataSegment(line)
           \/ ParseTextSegment(line)
           \/ ParseDataDefinition(line)
           \/ ParseDataDefinitionWithoutLabel(line)
           \/ ParseLabel(line)
           \/ ParseInstruction(line)
           \/ ParseUnexpected(line)
           \/ LexerError(line)
    /\ position' = position + 1
    /\ phase' = IF position' <= Len(source) THEN "parse"
                ELSE IF parseErrors' = <<>> THEN "encode" ELSE "failed"
    /\ results' = IF phase' = "failed"
                  THEN Append(results, ParseFailure(ContextErrors(parseErrors'), globalLabels'))
                  ELSE results
    /\ UNCHANGED <<source, linkVars, expVars, encoderVars, calls, outputs,
                   mergeVars>>

\* the inner loop of encodeInstructions from expanded instruction k on: each
\* word is pushed and the index advanced before the next one is encoded, a
\* throw leaves what was pushed so far
RECURSIVE EncodeRun(_, _, _, _)
\* a round that advances the index for the instruction that threw as well
EncodeRunStepCountingThrow(expanded, k, run, labels, r) ==
    IF ~r.ok
    THEN [run EXCEPT !.failed = TRUE, !.cause = <<r.message, r.subject>>,
                     !.index = run.index + 1,
                     !.fixups = run.fixups \o r.fixups]
    ELSE EncodeRun(expanded, k + 1,
                   [run EXCEPT !.memory = run.memory \o r.bytes,
                               !.index = run.index + 1,
                               !.fixups = run.fixups \o r.fixups,
                               !.emitted = Append(run.emitted, expanded[k])],
                   labels)

\* one round of the inner loop, r the bytes of expanded[k] or its throw
EncodeRunStep(expanded, k, run, labels, r) ==
    IF ~r.ok
    THEN [run EXCEPT !.failed = TRUE, !.cause = <<r.message, r.subject>>,
                     !.fixups = run.fixups \o r.fixups]
    ELSE EncodeRun(expanded, k + 1,
                   [run EXCEPT !.memory = run.memory \o r.bytes,
                               !.index = run.index + 1,
                               !.fixups = run.fixups \o r.fixups,
                               !.emitted = Append(run.emitted, expanded[k])],
                   labels)

EncodeRun(expanded, k, run, labels) ==
    IF k > Len(expanded) THEN run
    ELSE EncodeRunStep(expanded, k, run, labels,
                       EncodeInstruction(expanded[k], labels, run.index))

\* one round of the loop of encodeInstructions: the try block and its catch
EncodeSourceInstruction ==
    /\ phase = "encode" /\ encodePosition <= Len(instructions)
    /\ \E instruction \in {instructions[encodePosition]} :
       \E run \in {EncodeRun(ExpandPseudoInstruction(instruction, EncoderExpanderContext), 1,
                             [memory |-> instructionMemory,
                              index |-> currentInstructionIndex,
                              fixups |-> labelFixups, emitted |-> emitted,
                              failed |-> FALSE, cause |-> <<>>],
                             globalLabels)} :
           /\ instructionMemory' = run.memory
           /\ currentInstructionIndex' = run.index
           /\ labelFixups' = run.fixups
           /\ emitted' = run.emitted
           /\ errors' = IF run.failed
                        THEN AddError(errors, <<"Failed to encode instruction",
                                                instruction.mnemonic>> \o run.cause)
                        ELSE errors
           /\ wordsOf' = Append(wordsOf, [first |-> currentInstructionIndex,
                                          count |-> run.index - currentInstructionIndex,
                                          failed |-> run.failed])
    /\ encodePosition' = encodePosition + 1
    /\ UNCHANGED <<phase, dataMemory, pass1Memory, listing, linkVars, expVars, parserVars,
                   assembleVars,
                   mergeVars>>

RECURSIVE Flatten(_)
Flatten(seqs) == IF seqs = <<>> THEN <<>> ELSE Head(seqs) \o Flatten(Tail(seqs))

EncodeDataDefinition(dataDef) ==
    LET values == dataDef.values
    IN  IF dataDef.type = "byte" THEN [i \in DOMAIN values |-> Mask(values[i], 8)]
        ELSE IF dataDef.type = "half"
        THEN Flatten([i \in DOMAIN values |-> SubSeq(WordToBytes(values[i]), 3, 4)])
        ELSE IF dataDef.type = "word"
        THEN Flatten([i \in DOMAIN values |-> WordToBytes(values[i])])
        ELSE IF dataDef.type = "ascii"
        THEN Flatten([i \in DOMAIN values |->
                         [j \in DOMAIN values[i] |-> Mask(values[i][j], 8)]])
        ELSE IF dataDef.type = "space"
        THEN [i \in 1..(IF Len(values) > 0 THEN values[1] ELSE 0) |-> 0]
        ELSE <<>>

\* encodeData, once the loop of encodeInstructions is through
EncodeData ==
    /\ phase = "encode" /\ encodePosition > Len(instructions)
    /\ dataMemory' = Flatten([i \in DOMAIN data |-> EncodeDataDefinition(data[i])])
    /\ pass1Memory' = instructionMemory
    /\ phase' = "resolve"
    /\ UNCHANGED <<encodePosition, currentInstructionIndex, instructionMemory, labelFixups,
                   errors, wordsOf, emitted, listing, linkVars, expVars, parserVars,
                   assembleVars,
                   mergeVars>>

\* resolveLabels, and the end of encode
ResolveLabels ==
    /\ phase = "resolve"
    /\ LET resolved == ResolveFrom(labelFixups, 1, instructionMemory, errors, globalLabels)
       IN  /\ instructionMemory' = resolved.memory
           /\ errors' = resolved.errors
           /\ results' = Append(results, EncodeResult(resolved.errors, resolved.memory,
                                                      dataMemory, globalLabels))
    /\ labelFixups' = <<>>
    /\ phase' = "done"
    /\ UNCHANGED <<encodePosition, currentInstructionIndex, dataMemory, wordsOf, emitted,
                   pass1Memory, listing, linkVars, expVars, parserVars, calls, outputs,
                   mergeVars>>

\* the disassembler run over the instruction words, word k at address 4k
Disassemble ==
    /\ phase = "done"
    /\ listing' = [k \in 1..(Len(instructionMemory) \div 4) |->
                      DisassembleInstruction(
                          ReadWordAtInstructionIndex(instructionMemory, k - 1), (k - 1) * 4)]
    /\ phase' = "listed"
    /\ UNCHANGED <<encodePosition, currentInstructionIndex, instructionMemory, dataMemory,
                   labelFixups, errors, wordsOf, emitted, pass1Memory,
                   linkVars, expVars, parserVars, assembleVars,
                   mergeVars>>

AsmNext == ParseLine \/ EncodeSourceInstruction \/ EncodeData \/ ResolveLabels \/ Disassemble

(***************************************************************************)
(* Source texts.  A text is an optional data segment followed by up to     *)
(* MaxText lines of the text segment.                                      *)
(***************************************************************************)
MaxText == 3

\* no data, or x at the default start 0x00010000
DefaultDataParts ==
    { <<>>, <<DataLine(<<>>), DataDefLine("x", "word", <<5>>), TextLine>> }

\* also x behind one byte, at 0x00010001; x at 0x00020000, as far as a branch
\* at address 0 reaches; x at 0x00020004, one word further
DataParts ==
    DefaultDataParts \cup
    { <<DataLine(<<>>), DataDefLine("b", "byte", <<1>>), DataDefLine("x", "word", <<5>>),
        TextLine>>,
      <<DataLine(<<2, 0, 0, 0, 0>>), DataDefLine("x", "word", <<5>>), TextLine>>,
      <<DataLine(<<2, 0, 0, 0, 4>>), DataDefLine("x", "word", <<5>>), TextLine>> }

TextLines ==
    { LabelLine("L0"), LabelLine("L1"), JunkLine,
      InstrLine("nop", <<>>),
      InstrLine("push", <<D("t0")>>),
      InstrLine("la", <<D("t0"), W("L0")>>),
      InstrLine("beq", <<D("t0"), D("t1"), W("L0")>>),
      InstrLine("j", <<W("L1")>>),
      BadCharLine }

RECURSIVE TextsUpTo(_)
TextsUpTo(n) ==
    IF n = 0 THEN {<<>>}
    ELSE LET shorter == TextsUpTo(n - 1)
         IN  shorter \cup {Append(t, l) : t \in shorter, l \in TextLines}

\* with no data segment, or with the default one
Programs == {d \o t : d \in DefaultDataParts, t \in TextsUpTo(MaxText) \ {<<>>}}

AsmInit ==
    /\ phase = "parse"
    /\ source \in Programs
    /\ ParserInit /\ EncoderInit /\ LinkIdle /\ ExpIdle /\ FirstCall /\ MergeIdle

AsmSpec == AsmInit /\ [][AsmNext]_vars

(***************************************************************************)
(* Source texts around one instruction: an instance of a registry          *)
(* mnemonic with the operands its definition asks for, after a few lines   *)
(* and before a few others, so that labels lie before and behind it.       *)
(***************************************************************************)
InstanceRegisters == { <<"t0", "t1", "t2">>, <<"s1", "zero", "ra">>, <<"zero", "zero", "zero">> }

InstanceImmediates == {0, 5}

InstanceLabels == {"L0", "L1", "x"}

InstanceArgs(definition, regs, imm, label) ==
    IF IsMemoryAccessInstruction(definition.mnemonic)
    THEN <<D(regs[1]), Mem(Digits(imm), regs[2])>>
    ELSE [i \in DOMAIN definition.operands |->
             IF definition.operands[i].type = "REGISTER" THEN D(regs[i])
             ELSE IF definition.operands[i].type = "LABEL" THEN W(label)
             ELSE Num(FALSE, Digits(imm))]

Instances ==
    { InstrLine(INSTRUCTION_SET[k].mnemonic,
                InstanceArgs(INSTRUCTION_SET[k], regs, imm, label)) :
        k \in DOMAIN INSTRUCTION_SET, regs \in InstanceRegisters,
        imm \in InstanceImmediates, label \in InstanceLabels }

\* mfc0 and mtc0 without sel and with a sel of three and of four bits, and
\* eret
CP0Selectors == {7, 9}

CP0Instances ==
    { InstrLine(m, <<D(regs[1]), D(regs[2])>>) :
        m \in {"mfc0", "mtc0"}, regs \in InstanceRegisters }
    \cup { InstrLine(m, <<D(regs[1]), D(regs[2]), Num(FALSE, Digits(sel))>>) :
        m \in {"mfc0", "mtc0"}, regs \in InstanceRegisters, sel \in CP0Selectors }
    \cup { InstrLine("eret", <<>>) }

\* the offsets of loads and stores: decimal and hexadecimal, positive,
\* negative and zero, beyond 16 bits, and label names
MemoryOffsets ==
    { MemNum(FALSE, <<0>>, "sp"), MemNum(FALSE, <<4>>, "sp"), MemNum(TRUE, <<4>>, "sp"),
      MemNum(TRUE, <<0>>, "sp"),
      MemHex(FALSE, <<0>>, "sp"), MemHex(FALSE, <<1, 0>>, "sp"), MemHex(TRUE, <<1, 0>>, "sp"),
      MemHex(FALSE, <<1, 0, 0, 0, 4>>, "sp"),
      MemLabel("x", "sp"), MemLabel("L0", "sp"), MemLabel("L1", "sp") }

MemoryInstances ==
    { InstrLine(m, <<D("t0"), offset>>) :
        m \in {"lw", "sw", "lb", "sb", "lh", "sh", "lbu", "lhu"}, offset \in MemoryOffsets }

\* instructions written with fewer operands than their definitions name
ShortInstances ==
    { InstrLine("j", <<>>), InstrLine("jal", <<>>),
      InstrLine("mfc0", <<D("t0")>>), InstrLine("mtc0", <<>>),
      InstrLine("add", <<D("t0"), D("t1")>>), InstrLine("jr", <<>>),
      InstrLine("addi", <<D("t0"), D("t1")>>), InstrLine("beq", <<D("t0"), D("t1")>>),
      InstrLine("lui", <<D("t0")>>), InstrLine("lw", <<D("t0")>>) }

LinesBefore ==
    { <<>>,
      <<LabelLine("L0"), InstrLine("nop", <<>>)>>,
      <<InstrLine("push", <<D("t0")>>), LabelLine("L0")>> }

LinesBehind ==
    { <<>>, <<InstrLine("nop", <<>>), LabelLine("L1")>>, <<JunkLine>>, <<BadCharLine>> }

InstancePrograms ==
    {d \o before \o <<i>> \o behind :
        d \in DataParts, before \in LinesBefore, i \in Instances \cup CP0Instances \cup ShortInstances \cup MemoryInstances,
        behind \in LinesBehind}

InstanceInit ==
    /\ phase = "parse"
    /\ source \in InstancePrograms
    /\ ParserInit /\ EncoderInit /\ LinkIdle /\ ExpIdle /\ FirstCall /\ MergeIdle

InstanceSpec == InstanceInit /\ [][AsmNext]_vars

(***************************************************************************)
(* One AdvancedAssembler used for several calls of assemble, and then for  *)
(* calls of generateOutput.  The assembler keeps the Parser it built in    *)
(* its constructor; parse resets the token position, the error lists and   *)
(* the segments, and a new Encoder is built for every context that parsed. *)
(***************************************************************************)
MaxCalls == 2

MaxOutputs == 1

SessionPrograms ==
    { <<LabelLine("L0"), InstrLine("nop", <<>>)>>,
      <<InstrLine("j", <<W("L0")>>)>>,
      <<InstrLine("nop", <<>>), LabelLine("L1"), InstrLine("j", <<W("L1")>>)>>,
      <<TextLine, LabelLine("L1"), InstrLine("nop", <<>>)>>,
      <<DataLine(<<>>), DataDefLine("x", "word", <<5>>)>>,
      <<InstrLine("addi", <<D("t0"), D("t0"), W("L0")>>)>>,
      <<InstrLine("la", <<D("t0"), W("x")>>)>>,
      <<LabelLine("L0"), InstrLine("beq", <<D("t0"), D("t1"), W("L0")>>)>>,
      <<InstrLine("bne", <<D("t1"), D("zero"), W("L0")>>), LabelLine("L0")>>,
      <<InstrLine("foo", <<>>)>>,
      <<JunkLine>>,
      <<InstrLine("nop", <<>>), BadCharLine>> }

\* a later call of assemble: the head of Parser.parse on the parser of the
\* earlier calls
AssembleAgain(text) ==
    /\ phase \in {"failed", "done", "listed"}
    /\ calls < MaxCalls /\ outputs = <<>>
    /\ calls' = calls + 1
    /\ source' = text
    /\ position' = 1
    /\ parserLoop' = "program"
    /\ parseErrors' = <<>>
    \* initializeDefaultSegments: new text and data segments
    /\ instructions' = <<>>
    /\ data' = <<>>
    /\ dataStartAddress' = DATA_START
    \* the context object is the one the constructor made
    /\ UNCHANGED <<currentSegment, programCounter, globalLabels>>
    \* the encoder of the earlier call is not used again
    /\ encodePosition' = 1
    /\ currentInstructionIndex' = 0
    /\ instructionMemory' = <<>>
    /\ dataMemory' = <<>>
    /\ labelFixups' = <<>>
    /\ errors' = <<>>
    /\ wordsOf' = <<>>
    /\ emitted' = <<>>
    /\ pass1Memory' = <<>>
    /\ listing' = <<>>
    /\ phase' = "parse"
    /\ UNCHANGED <<results, outputs, linkVars, expVars,
                   mergeVars>>

OutputFormats == {"coe", "hex", "bin", "elf", "json"}

AssemblerConfig(format, report, disassembly, uart) ==
    [outputFormat |-> format, generateReport |-> report,
     generateDisassembly |-> disassembly, generateUartFiles |-> uart]

\* the default configuration with each output format, and one with the
\* other switches turned over
OutputConfigs ==
    {AssemblerConfig(f, TRUE, FALSE, FALSE) : f \in OutputFormats}
        \cup {AssemblerConfig("coe", FALSE, TRUE, TRUE)}

\* the files generateOutput writes once it is past its first check
OutputFiles(config) ==
    (IF config.outputFormat = "coe" THEN {"prgmip32.coe", "dmem32.coe"}
     ELSE IF config.outputFormat = "hex" THEN {"program.hex"}
     ELSE IF config.outputFormat = "bin" THEN {"program.bin"}
     ELSE IF config.outputFormat = "elf" THEN {"program.elf"}
     ELSE {"program.json"})
        \cup (IF config.generateUartFiles THEN {"program.bin", "program.elf"} ELSE {})
        \cup (IF config.outputFormat # "coe" \/ config.generateUartFiles
              THEN {"prgmip32.coe", "dmem32.coe"} ELSE {})
        \cup (IF config.generateReport THEN {"assembly_report.txt"} ELSE {})
        \cup (IF config.generateDisassembly THEN {"disassembly.asm"} ELSE {})
        \cup {"symbol_table.txt"}

\* this.formatter is set by the calls of assemble that succeeded
HasFormatter == \E k \in DOMAIN results : results[k].success

\* the memory image of this.formatter: the one of the call of assemble that
\* succeeded last
FormatterImage ==
    LET last == CHOOSE k \in DOMAIN results :
                    results[k].success /\ \A j \in DOMAIN results : results[j].success => j <= k
    IN  [instructionMemory |-> results[last].instructionMemory,
         dataMemory |-> results[last].dataMemory]

\* REGISTER_NAMES[r] in formatter.ts: REGISTER_NAMES of core/types is a Map,
\* and a Map has no property of the name of a number
FormatterRegisterName(r) == Tok("reg", "undefined", FALSE, <<>>)

\* Formatter.disassembleInstruction
FormatterDisassembleInstruction(word, address) ==
    IF word = 0 THEN Text("nop", <<>>)
    ELSE LET f  == ParseInstructionWord(word)
             rsName == FormatterRegisterName(f.rs)
             rtName == FormatterRegisterName(f.rt)
             signed == NumberToString(SignExtend16(f.immediate))
             immediateHex == HexText(f.immediate)
             branchTarget == HexText(BranchTarget(f, address))
         IN  IF f.op \in {8, 9, 10, 11}
             THEN Text(CASE f.op = 8 -> "addi" [] f.op = 9 -> "addiu"
                         [] f.op = 10 -> "slti" [] f.op = 11 -> "sltiu",
                       <<rtName, rsName, signed>>)
             ELSE IF f.op \in {12, 13, 14}
             THEN Text(CASE f.op = 12 -> "andi" [] f.op = 13 -> "ori" [] f.op = 14 -> "xori",
                       <<rtName, rsName, immediateHex>>)
             ELSE IF f.op = 15 THEN Text("lui", <<rtName, immediateHex>>)
             ELSE IF f.op = 4 THEN Text("beq", <<rsName, rtName, branchTarget>>)
             ELSE IF f.op = 5 THEN Text("bne", <<rsName, rtName, branchTarget>>)
             ELSE IF f.op = 6 THEN Text("blez", <<rsName, branchTarget>>)
             ELSE IF f.op = 7 THEN Text("bgtz", <<rsName, branchTarget>>)
             ELSE IF f.op = 1
             THEN IF f.rt \in {0, 1, 16, 17}
                  THEN Text(CASE f.rt = 0 -> "bltz" [] f.rt = 1 -> "bgez"
                              [] f.rt = 16 -> "bltzal" [] f.rt = 17 -> "bgezal",
                            <<rsName, branchTarget>>)
                  ELSE Text("undefined", <<>>)
             ELSE IF f.op \in {32, 33, 35, 36, 37, 40, 41, 43}
             THEN Text(CASE f.op = 32 -> "lb" [] f.op = 36 -> "lbu" [] f.op = 33 -> "lh"
                         [] f.op = 37 -> "lhu" [] f.op = 40 -> "sb" [] f.op = 41 -> "sh"
                         [] f.op = 35 -> "lw" [] f.op = 43 -> "sw",
                       <<rtName, signed, rsName>>)
             ELSE Text("unknown", <<HexText(f.op)>>)

\* Formatter.disassemble: one line for each word of bytesToWords
FormatterDisassemble(memory) ==
    [i \in 1..((Len(memory) + 3) \div 4) |->
        FormatterDisassembleInstruction(ReadWordAtInstructionIndex(memory, i - 1), (i - 1) * 4)]

\* what generateOutput writes: the files, the memory image they are made
\* from, and the text of disassembly.asm
OutputWritten(k, config) ==
    [result |-> k, threw |-> FALSE, files |-> OutputFiles(config),
     instructionMemory |-> FormatterImage.instructionMemory,
     dataMemory |-> FormatterImage.dataMemory,
     disassembly |-> IF config.generateDisassembly
                     THEN FormatterDisassemble(FormatterImage.instructionMemory)
                     ELSE <<>>]

NoOutput(k) ==
    [result |-> k, threw |-> TRUE, files |-> {},
     instructionMemory |-> <<>>, dataMemory |-> <<>>, disassembly |-> <<>>]

\* generateOutput(results[k], dir) under a configuration
GenerateOutput(k, config) ==
    /\ phase \in {"failed", "done", "listed"}
    /\ Len(outputs) < MaxOutputs
    /\ outputs' = Append(outputs,
                         IF ~results[k].success \/ ~HasFormatter
                         THEN NoOutput(k)
                         ELSE OutputWritten(k, config))
    /\ UNCHANGED <<phase, calls, results, linkVars, expVars, parserVars, encoderVars,
                   mergeVars>>

SessionNext ==
    \/ AsmNext
    \/ \E text \in SessionPrograms : AssembleAgain(text)
    \/ \E k \in DOMAIN results, config \in OutputConfigs : GenerateOutput(k, config)

SessionInit ==
    /\ phase = "parse"
    /\ source \in SessionPrograms
    /\ ParserInit /\ EncoderInit /\ LinkIdle /\ ExpIdle /\ FirstCall /\ MergeIdle

SessionSpec == SessionInit /\ [][SessionNext]_vars

\* the call of assemble begun last has returned
Returned == phase \in {"failed", "done", "listed"} /\ Len(results) = calls

\* C12: assemble returns success exactly when neither the lexer or
\* parser nor the encoder reported an error; after a parse error the encoder
\* is never run and the memory image returned is empty; after an encoder
\* error success is false; generateOutput with a result that is no success
\* throws and writes no file.
C12_AssembleResult ==
    /\ Returned =>
           LET result == results[calls]
           IN  /\ result.success <=> (parseErrors = <<>> /\ errors = <<>>)
               /\ parseErrors # <<>> =>
                      /\ phase = "failed"
                      /\ encodePosition = 1 /\ wordsOf = <<>> /\ instructionMemory = <<>>
                      /\ result.instructionMemory = <<>> /\ result.dataMemory = <<>>
               /\ errors # <<>> => ~result.success
    /\ \A o \in DOMAIN outputs :
           ~results[outputs[o].result].success =>
               outputs[o].threw /\ outputs[o].files = {}

\* a call ended on an encoder error, and generateOutput was then called
\* with its result
C12_Witness ==
    /\ Returned /\ phase = "done" /\ errors # <<>> /\ parseErrors = <<>>
    /\ Len(outputs) = 1 /\ outputs[1].result = calls /\ outputs[1].threw

\* the labels the lines of a text define
DefinedLabels(text) ==
    {text[i].name : i \in {j \in DOMAIN text : text[j].kind \in {"label", "datadef"}}}

\* C13: every call of assemble works on a fresh label table and a fresh
\* address counter, so that assemble(B) behind an earlier assemble(A) gives
\* what it gives on a new assembler: when a call begins to parse, no label
\* is defined, the address counter is 0 and the current segment is the text
\* segment, as behind the constructor; the symbol table a call returns
\* holds only labels its own source defines.
C13_FreshCall ==
    /\ (phase = "parse" /\ position = 1) =>
           /\ globalLabels = NoLabels
           /\ programCounter = TEXT_START
           /\ currentSegment = "text"
    /\ Returned => DOMAIN results[calls].symbolTable \subseteq DefinedLabels(source)

\* j L0 alone is assembled with success as a second call, L0 being a label
\* of the source of the first call
C13_LabelLeaks ==
    ~(/\ Returned /\ calls = 2
      /\ source = <<InstrLine("j", <<W("L0")>>)>>
      /\ results[calls].success
      /\ "L0" \in DOMAIN results[calls].symbolTable)

\* a first call never assembles j L0 alone with success
C13_FirstCallUndefined ==
    (Returned /\ calls = 1 /\ source = <<InstrLine("j", <<W("L0")>>)>>)
        => ~results[calls].success

Encoded == phase \in {"done", "listed"}

\* the word the encoder left at instruction index w
WordAt(w) == ReadWordAtInstructionIndex(instructionMemory, w)

\* the instruction lines up to line p of the source
InstructionsUpTo(p) == Cardinality({q \in 1..p : source[q].kind = "instruction"})

\* line p is the definition that binds its label: no later line defines it
BindsLabel(p) ==
    /\ source[p].kind = "label"
    /\ \A q \in DOMAIN source :
           (q > p /\ source[q].kind \in {"label", "datadef"}) => source[q].name # source[p].name

\* C3: the address bound to a text label is 4 x the index of the first word
\* the encoder emits for the instruction that follows the label, whatever
\* pseudo-instructions precede the label.
C3_LabelAddress ==
    Encoded =>
        \A p \in DOMAIN source :
            LET k == InstructionsUpTo(p) + 1
            IN  (BindsLabel(p) /\ k <= Len(wordsOf) /\ wordsOf[k].count > 0) =>
                    globalLabels[source[p].name] = 4 * wordsOf[k].first

\* C4: after the resolve pass, for a branch (beq, bne, blez, bgtz, bgez,
\* bltz, bgezal, bltzal) to a defined, word-aligned label whose distance
\* from the instruction after the branch fits the signed 16-bit word
\* offset, the low 16 bits of the word, sign-extended and shifted left by 2,
\* plus 4 x the branch's instruction index + 4, are the label's address, and
\* the upper 16 bits are those of pass 1.
C4_BranchOffset ==
    Encoded =>
        \A w \in DOMAIN emitted :
            LET i      == emitted[w]
                target == i.operands[Len(i.operands)]
                next   == 4 * (w - 1) + 4
            IN  (/\ i.mnemonic \in {"beq", "bne", "blez", "bgtz", "bgez", "bltz",
                                     "bgezal", "bltzal"}
                 /\ Len(i.operands) >= 1 /\ target.type = "LABEL"
                 /\ target.label \in DOMAIN globalLabels
                 /\ globalLabels[target.label] % 4 = 0
                 /\ globalLabels[target.label] - next >= -131072
                 /\ globalLabels[target.label] - next <= 131068) =>
                    LET word  == WordAt(w - 1)
                        low16 == word % 65536
                        sext  == IF low16 >= 32768 THEN low16 - 65536 ELSE low16
                    IN  /\ sext * 4 + next = globalLabels[target.label]
                        /\ word \div 65536
                               = ReadWordAtInstructionIndex(pass1Memory, w - 1) \div 65536

\* a branch at address 0 to x at 0x00020000 holds the largest offset, 32767,
\* under an upper half that is not zero
C4_Witness ==
    /\ Encoded /\ Len(emitted) >= 1
    /\ emitted[1].mnemonic = "bne"
    /\ emitted[1].operands[3] = LabelOp("x")
    /\ "x" \in DOMAIN globalLabels /\ globalLabels["x"] = 131072
    /\ WordAt(0) % 65536 = 32767
    /\ WordAt(0) \div 65536 # 0

\* C5: after the resolve pass, for a j or jal to a defined, word-aligned
\* label in the 256MB segment of the jump, the low 26 bits of the word
\* shifted left by 2 and or-ed with the high 4 bits of the jump's own
\* address are the label's address, and bits 31..26 are still the opcode,
\* 0x02 for j and 0x03 for jal.
C5_JumpTarget ==
    Encoded =>
        \A w \in DOMAIN emitted :
            LET i   == emitted[w]
                own == 4 * (w - 1)
            IN  (/\ i.mnemonic \in {"j", "jal"}
                 /\ Len(i.operands) >= 1 /\ i.operands[1].type = "LABEL"
                 /\ i.operands[1].label \in DOMAIN globalLabels
                 /\ globalLabels[i.operands[1].label] % 4 = 0
                 /\ globalLabels[i.operands[1].label] \div 2^28 = own \div 2^28) =>
                    LET word == WordAt(w - 1)
                    IN  /\ BitOr(Shl(word % 2^26, 2), Shl(own \div 2^28, 28))
                               = globalLabels[i.operands[1].label]
                        /\ Mask(ShruFast(word, 26), 6) = (IF i.mnemonic = "j" THEN 2 ELSE 3)

\* a jal behind a push, to x at 0x00020004
C5_Witness ==
    /\ Encoded /\ Len(emitted) = 3
    /\ emitted[3].mnemonic = "jal"
    /\ emitted[3].operands = <<LabelOp("x")>>
    /\ "x" \in DOMAIN globalLabels /\ globalLabels["x"] = 131076
    /\ WordAt(2) % 2^26 = 32769

\* C7: for la rd, label with the label defined, the encoder emits exactly
\* two words, lui rd, hi and ori rd, rd, lo, with hi and lo the upper and
\* the lower 16 bits of the label's address, and reports no error.
C7_LoadAddress ==
    Encoded =>
        \A k \in DOMAIN instructions :
            LET i == instructions[k]
            IN  (/\ i.mnemonic = "la" /\ Len(i.operands) = 2
                 /\ i.operands[1].type = "REGISTER" /\ i.operands[2].type = "LABEL"
                 /\ i.operands[2].label \in DOMAIN globalLabels) =>
                    LET rd      == i.operands[1].register
                        address == globalLabels[i.operands[2].label]
                        hi      == (address \div 65536) % 65536
                        lo      == address % 65536
                        first   == wordsOf[k].first
                    IN  /\ wordsOf[k].count = 2
                        /\ ~wordsOf[k].failed
                        /\ WordAt(first) = 15 * 2^26 + rd * 2^16 + hi
                        /\ WordAt(first + 1) = 13 * 2^26 + rd * 2^21 + rd * 2^16 + lo

\* the registers a line of the listing prints, by number
PrintedRegisters(text) ==
    LET regs == SelectSeq(text.operands, LAMBDA o : o.k = "reg")
        number(o) ==
            IF \E n \in 0..31 : DISASM_REGISTER_NAMES[n + 1] = o.s
            THEN CHOOSE n \in 0..31 : DISASM_REGISTER_NAMES[n + 1] = o.s
            ELSE CHOOSE n \in 0..31 : "$" \o DigitsText(Digits(n)) = o.s
    IN  [j \in DOMAIN regs |-> number(regs[j])]

\* the registers an instruction was written with, by number
WrittenRegisters(instruction) ==
    LET regs == SelectSeq(instruction.operands, LAMBDA o : o.type \in {"REGISTER", "ADDRESS"})
    IN  [j \in DOMAIN regs |-> regs[j].register]

SignTestBranches == {"bltz", "bgez", "bltzal", "bgezal"}

\* C8: every instance of a registry mnemonic that was encoded without error
\* is listed by the disassembler with the same mnemonic and the same
\* registers; bltz, bgez, bltzal and bgezal with the same register and
\* label encode to pairwise different words.
C8_RoundTrip ==
    (phase = "listed" /\ errors = <<>>) =>
        \A k \in DOMAIN instructions :
            LET i == instructions[k]
            IN  (HasInstruction(i.mnemonic) /\ wordsOf[k].count = 1) =>
                    /\ listing[wordsOf[k].first + 1].mnemonic = i.mnemonic
                    /\ PrintedRegisters(listing[wordsOf[k].first + 1]) = WrittenRegisters(i)
                    /\ i.mnemonic \in SignTestBranches =>
                           \A m \in SignTestBranches \ {i.mnemonic} :
                               EncodeInstruction([i EXCEPT !.mnemonic = m], globalLabels,
                                                 wordsOf[k].first).bytes
                                   # SubSeq(pass1Memory, 4 * wordsOf[k].first + 1,
                                                         4 * wordsOf[k].first + 4)

\* the word of an mfc0 or mtc0: opcode 0x10, rs, rt, rd and sel in their
\* fields and every other bit zero
CP0Word(rs, rt, rd, sel) == 16 * 2^26 + rs * 2^21 + rt * 2^16 + rd * 2^11 + sel

\* rt, rd are registers and sel, if written, is an immediate
IsCP0Move(i) ==
    /\ i.mnemonic \in {"mfc0", "mtc0"}
    /\ Len(i.operands) \in {2, 3}
    /\ i.operands[1].type = "REGISTER" /\ i.operands[2].type = "REGISTER"
    /\ Len(i.operands) = 3 => (i.operands[3].type = "IMMEDIATE" /\ i.operands[3].immediate >= 0)

\* C17: eret always encodes to the word 0x42000018; mfc0 rt, rd[, sel] and
\* mtc0 rt, rd[, sel] encode to opcode 0x10 in bits 31..26, rs (bits
\* 25..21) 0x00 for mfc0 and 0x04 for mtc0, rt in bits 20..16, rd in bits
\* 15..11, sel in bits 2..0 with sel = 0 when omitted, every other bit zero.
C17_CP0Words ==
    Encoded =>
        \A w \in DOMAIN emitted :
            LET i == emitted[w]
            IN  /\ i.mnemonic = "eret" => WordAt(w - 1) = 1107296280
                /\ IsCP0Move(i) =>
                       WordAt(w - 1)
                           = CP0Word(IF i.mnemonic = "mfc0" THEN 0 ELSE 4,
                                     i.operands[1].register, i.operands[2].register,
                                     IF Len(i.operands) = 3
                                     THEN i.operands[3].immediate % 8 ELSE 0)

\* mtc0 $t0, $t1 without sel was encoded, its word 0x40884800
C17_Witness ==
    /\ Encoded
    /\ \E w \in DOMAIN emitted :
           /\ emitted[w].mnemonic = "mtc0" /\ Len(emitted[w].operands) = 2
           /\ emitted[w].operands[1] = RegOp(8) /\ emitted[w].operands[2] = RegOp(9)
           /\ WordAt(w - 1) = 1082673152

(***************************************************************************)
(* Data segments: .data with or without a start address, up to MaxData     *)
(* definitions, with and without a label, and a text segment or none.  A   *)
(* string is the sequence of its character codes.                          *)
(***************************************************************************)
MaxData == 3

DataDefinitions ==
    { DataDefLine("x", "byte", <<1, 300, -1>>),
      DataDefLine("", "half", <<258, 70000>>),
      DataDefLine("y", "word", <<5, -2>>),
      DataDefLine("s", "ascii", << <<72, 105>>, <<33>> >>),
      DataDefLine("x", "space", <<3>>),
      DataDefLine("", "space", <<>>),
      DataDefLine("y", "space", <<-4>>) }

RECURSIVE DataUpTo(_)
DataUpTo(n) ==
    IF n = 0 THEN {<<>>}
    ELSE LET shorter == DataUpTo(n - 1)
         IN  shorter \cup {Append(t, l) : t \in shorter, l \in DataDefinitions}

DataPrograms ==
    { <<DataLine(start)>> \o defs \o behind :
        start \in {<<>>, <<2, 0, 0, 0, 0>>}, defs \in DataUpTo(MaxData),
        behind \in {<<>>, <<TextLine, InstrLine("nop", <<>>)>>} }

DataInit ==
    /\ phase = "parse"
    /\ source \in DataPrograms
    /\ ParserInit /\ EncoderInit /\ LinkIdle /\ ExpIdle /\ FirstCall /\ MergeIdle

DataSpec == DataInit /\ [][AsmNext]_vars

\* the bytes of a value, the most significant first
HalfBytes(v) == << (v \div 256) % 256, v % 256 >>

WordBytes(v) == << (v \div 16777216) % 256, (v \div 65536) % 256, (v \div 256) % 256, v % 256 >>

\* the bytes a definition stands for
BytesOf(def) ==
    LET type   == def.args[1]
        values == def.args[2]
    IN  IF type = "byte" THEN [i \in DOMAIN values |-> values[i] % 256]
        ELSE IF type = "half" THEN Flatten([i \in DOMAIN values |-> HalfBytes(values[i])])
        ELSE IF type = "word" THEN Flatten([i \in DOMAIN values |-> WordBytes(values[i])])
        ELSE IF type = "ascii" THEN Flatten(values)
        ELSE [i \in 1..(IF values = <<>> THEN 0 ELSE values[1]) |-> 0]

\* the data definitions of the source, in their order
Definitions == SelectSeq(source, LAMBDA l : l.kind = "datadef")

\* the bytes of the definitions in front of definition i
BytesBefore(i) == Flatten([k \in 1..(i - 1) |-> BytesOf(Definitions[k])])

\* C18: data memory is the in-order concatenation of the definitions' bytes
\* (.byte one byte per value, value mod 256; .half two and .word four bytes,
\* most significant first; .ascii the characters, no terminator; .space N
\* N zero bytes); the number of bytes of each definition equals the size by
\* which the parser advanced the data address for it, so each data label's
\* address is the data start address plus its byte offset in data memory.
C18_DataMemory ==
    Encoded =>
        /\ dataMemory = BytesBefore(Len(Definitions) + 1)
        /\ Len(data) = Len(Definitions)
        /\ \A i \in DOMAIN Definitions :
               /\ Len(BytesOf(Definitions[i])) = data[i].size
               /\ (/\ Definitions[i].name # ""
                   /\ \A k \in DOMAIN Definitions :
                          k > i => Definitions[k].name # Definitions[i].name) =>
                      globalLabels[Definitions[i].name]
                          = dataStartAddress + Len(BytesBefore(i))

\* no .space of the source has a negative size
SpaceSizesAreNatural ==
    \A i \in DOMAIN Definitions :
        (Definitions[i].args[1] = "space" /\ Definitions[i].args[2] # <<>>) =>
            Definitions[i].args[2][1] >= 0

\* the same for such sources
C18_DataMemoryOfNaturalSpace == SpaceSizesAreNatural => C18_DataMemory

\* the operands an instruction must bring: those its definition marks as
\* required, the register and the address for a load or store
RequiredOperands(m) ==
    IF IsMemoryAccessInstruction(m) THEN 2
    ELSE LET operands == INSTRUCTION_LOOKUP(m).operands
         IN  Cardinality({j \in DOMAIN operands : operands[j].required})

LacksRequiredOperand(instruction) ==
    /\ HasInstruction(instruction.mnemonic)
    /\ Len(instruction.operands) < RequiredOperands(instruction.mnemonic)

\* C21: encoding an instruction that lacks an operand its definition marks
\* as required records a SEMANTIC encode error for that instruction, in
\* every instruction class, j/jal with no operand and mfc0/mtc0 with fewer
\* than two register operands included.
C21_MissingOperand ==
    Encoded =>
        \A k \in DOMAIN instructions :
            LacksRequiredOperand(instructions[k]) =>
                /\ wordsOf[k].failed
                /\ \E e \in DOMAIN errors :
                       /\ errors[e].type = "SEMANTIC"
                       /\ errors[e].message[2] = instructions[k].mnemonic

\* the same for the instructions encoded by the operand loops of the R and
\* I types and by the load/store encoder
C21_MissingOperandOfRAndI ==
    Encoded =>
        \A k \in DOMAIN instructions :
            (/\ LacksRequiredOperand(instructions[k])
             /\ INSTRUCTION_LOOKUP(instructions[k].mnemonic).type \in {"R_TYPE", "I_TYPE"}
             /\ INSTRUCTION_LOOKUP(instructions[k].mnemonic).encoding # "CP0") =>
                /\ wordsOf[k].failed
                /\ \E e \in DOMAIN errors :
                       /\ errors[e].type = "SEMANTIC"
                       /\ errors[e].message[2] = instructions[k].mnemonic

\* j, jal, mfc0 and mtc0 short of an operand are encoded without an error
C21_ShortJumpEncoded ==
    Encoded =>
        \A k \in DOMAIN instructions :
            (/\ LacksRequiredOperand(instructions[k])
             /\ instructions[k].mnemonic \in {"j", "jal", "mfc0", "mtc0"}) =>
                ~wordsOf[k].failed /\ wordsOf[k].count = 1

\* pass 1 is through: the loop of encodeInstructions and encodeData have
\* run, resolveLabels has not
PassOneDone == phase = "resolve"

\* the source instructions whose encoding threw, in program order
FailedInstructions == SelectSeq([k \in DOMAIN wordsOf |-> k], LAMBDA k : wordsOf[k].failed)

UndefinedFixups ==
    SelectSeq(labelFixups, LAMBDA f : f.label \notin DOMAIN globalLabels)

\* the field a fixup patches holds the label's address: the word address in
\* the low 26 bits of a jump, the word offset from the next instruction in
\* the low 16 bits of a branch
Patched(fixup, word) ==
    IF fixup.type = "J"
    THEN word % 67108864 = (globalLabels[fixup.label] \div 4) % 67108864
    ELSE word % 65536
             = ((globalLabels[fixup.label] - (4 * fixup.instructionIndex + 4)) \div 4) % 65536

\* C23: in the resolve pass each fixup whose label is absent from the label
\* table adds exactly one 'Undefined label' error and leaves its word as
\* emitted in pass 1; every other fixup, recorded before or after it, is
\* still patched; the number of such errors equals the number of fixups
\* with an undefined label.
C23_ResolvePass ==
    [][ phase = "resolve" =>
          /\ Len(errors') = Len(errors) + Len(UndefinedFixups)
          /\ \A e \in DOMAIN UndefinedFixups :
                 errors'[Len(errors) + e].message = <<"Undefined label", UndefinedFixups[e].label>>
          /\ \A k \in DOMAIN labelFixups :
                 LET w == labelFixups[k].instructionIndex
                 IN  IF labelFixups[k].label \notin DOMAIN globalLabels
                     THEN ReadWordAtInstructionIndex(instructionMemory', w)
                              = ReadWordAtInstructionIndex(pass1Memory, w)
                     ELSE Patched(labelFixups[k],
                                  ReadWordAtInstructionIndex(instructionMemory', w))
      ]_vars

\* j L1 with L1 undefined, then beq to L0 defined in front: one error, the
\* jump's word as in pass 1 and the branch patched
C23_Witness ==
    /\ Encoded /\ Len(emitted) = 2
    /\ emitted[1].mnemonic = "j" /\ emitted[2].mnemonic = "beq"
    /\ "L1" \notin DOMAIN globalLabels /\ "L0" \in DOMAIN globalLabels
    /\ Len(errors) = 1 /\ errors[1].message = <<"Undefined label", "L1">>
    /\ WordAt(0) = ReadWordAtInstructionIndex(pass1Memory, 0)
    /\ WordAt(1) # ReadWordAtInstructionIndex(pass1Memory, 1)

\* the number a numeric offset token stands for
LiteralOffset(tok) ==
    LET magnitude == IF tok.k = "memhex" THEN HexValue(tok.d) ELSE DigitsValue(tok.d)
    IN  IF tok.neg THEN -magnitude ELSE magnitude

\* source line p is a load or store of a register and an offset(register)
IsLoadStore(p) ==
    /\ source[p].kind = "instruction"
    /\ IsMemoryAccessInstruction(source[p].name)
    /\ Len(source[p].args) = 2
    /\ source[p].args[2].k \in {"mem", "memhex", "memlabel"}

\* an 'Undefined label' error was recorded for source instruction k
UndefinedLabelAt(k) ==
    /\ wordsOf[k].failed
    /\ \E e \in DOMAIN errors :
           /\ errors[e].message[2] = instructions[k].mnemonic
           /\ errors[e].message[3] = "Undefined label"

\* C24: for a load/store the 16-bit offset field is the low 16 bits of the
\* label's absolute address when the offset is written as a label name, and
\* the low 16 bits of the literal when it is written as a number, decimal
\* or hexadecimal, positive, negative or zero; a label lookup, and with it
\* a possible 'Undefined label' error, happens only when the offset is
\* written as a label name.
C24_LoadStoreOffset ==
    Encoded =>
        \A p \in DOMAIN source :
            IsLoadStore(p) =>
                LET k      == InstructionsUpTo(p)
                    offset == source[p].args[2]
                IN  IF offset.k = "memlabel"
                    THEN IF offset.l \in DOMAIN globalLabels
                         THEN /\ ~wordsOf[k].failed
                              /\ WordAt(wordsOf[k].first) % 65536
                                     = globalLabels[offset.l] % 65536
                         ELSE UndefinedLabelAt(k)
                    ELSE /\ ~wordsOf[k].failed
                         /\ WordAt(wordsOf[k].first) % 65536 = LiteralOffset(offset) % 65536

\* the offset is not a zero written in hexadecimal or with a sign
NoSpelledZero(p) ==
    LET offset == source[p].args[2]
    IN  ~(/\ offset.k \in {"mem", "memhex"} /\ LiteralOffset(offset) = 0
          /\ (offset.k = "memhex" \/ offset.neg))

\* the same for every other offset
C24_LoadStoreOffsetButSpelledZero ==
    (\A p \in DOMAIN source : IsLoadStore(p) => NoSpelledZero(p)) => C24_LoadStoreOffset

(***************************************************************************)
(* beq and bne in the two disassemblers.                                   *)
(***************************************************************************)
\* beq/bne with two registers and a label
IsBranchOnTwo(i) ==
    /\ i.mnemonic \in {"beq", "bne"}
    /\ Len(i.operands) = 3
    /\ i.operands[1].type = "REGISTER" /\ i.operands[2].type = "REGISTER"
    /\ i.operands[3].type = "LABEL"

\* the disassembly.asm files written from the memory image of the call of
\* assemble that returned last
DisassemblyFiles ==
    {o \in DOMAIN outputs :
        /\ ~outputs[o].threw /\ outputs[o].disassembly # <<>>
        /\ Len(results) = calls /\ results[calls].success}

\* the first source register is in rt and the second in rs, and
\* verification/disassembler.ts prints them in the order of the source
C25_EncoderAndVerificationDisassembler ==
    (Encoded /\ errors = <<>>) =>
        \A w \in DOMAIN emitted :
            IsBranchOnTwo(emitted[w]) =>
                LET f == ParseInstructionWord(WordAt(w - 1))
                IN  /\ f.rt = emitted[w].operands[1].register
                    /\ f.rs = emitted[w].operands[2].register
                    /\ phase = "listed" =>
                           /\ listing[w].mnemonic = emitted[w].mnemonic
                           /\ listing[w].operands[1] = RegText(emitted[w].operands[1].register)
                           /\ listing[w].operands[2] = RegText(emitted[w].operands[2].register)

\* C25: for beq and bne the first source register is encoded in the rt field
\* (bits 20..16) and the second in the rs field (bits 25..21), and both
\* disassemblers (verification/disassembler.ts and Formatter.disassemble)
\* print the two registers of an encoded beq/bne in the order in which they
\* were written in the source.
C25_BranchRegisterOrder ==
    /\ C25_EncoderAndVerificationDisassembler
    /\ \A o \in DisassemblyFiles :
           \A w \in DOMAIN emitted :
               IsBranchOnTwo(emitted[w]) =>
                   LET printed == outputs[o].disassembly[w]
                   IN  /\ printed.mnemonic = emitted[w].mnemonic
                       /\ printed.operands[1].s
                              = REGISTER_NAMES[emitted[w].operands[1].register + 1]
                       /\ printed.operands[2].s
                              = REGISTER_NAMES[emitted[w].operands[2].register + 1]

\* beq $t0, $t1, L0 was encoded and listed by both disassemblers
C25_Listed ==
    /\ phase = "listed" /\ errors = <<>>
    /\ DisassemblyFiles # {}
    /\ \E w \in DOMAIN emitted :
           /\ IsBranchOnTwo(emitted[w])
           /\ emitted[w].operands[1] = RegOp(8) /\ emitted[w].operands[2] = RegOp(9)

(***************************************************************************)
(* A label defined twice.                                                  *)
(***************************************************************************)
\* the names bound to another address by the step
Rebound == {l \in DOMAIN globalLabels \cap DOMAIN globalLabels' : globalLabels'[l] # globalLabels[l]}

\* C26: within one assembly unit, defining the same label name a second
\* time either reports an error or keeps the first definition: the address
\* bound to a name in the global label table is never replaced by a later
\* definition without an error being reported.
C26_FirstDefinitionKept ==
    [][Rebound # {} => Len(parseErrors') > Len(parseErrors)]_vars

\* no name leaves the table, and an address is replaced only by the line
\* that defines the name again
C26_ReboundByDefinitionOnly ==
    [][/\ DOMAIN globalLabels \subseteq DOMAIN globalLabels'
       /\ Rebound # {} =>
              /\ phase = "parse"
              /\ source[position].kind \in {"label", "datadef"}
              /\ Rebound = {source[position].name}]_vars

(***************************************************************************)
(* bgt, bge, blt and ble.                                                  *)
(***************************************************************************)
\* op r1, r2, L
IsCompareBranch(i) ==
    /\ i.mnemonic \in {"bgt", "bge", "blt", "ble"}
    /\ Len(i.operands) = 3
    /\ i.operands[1].type = "REGISTER" /\ i.operands[2].type = "REGISTER"
    /\ i.operands[3].type = "LABEL"

\* two instructions, an slt into $at and a bne or beq on $at and $zero to L
C27_SltThenBranch ==
    (Expanded /\ IsCompareBranch(expIn)) =>
        /\ Len(expOut) = 2
        /\ expOut[1].mnemonic = "slt"
        /\ Len(expOut[1].operands) = 3
        /\ expOut[1].operands[1] = RegOp(1)
        /\ expOut[2].mnemonic = (IF expIn.mnemonic \in {"bgt", "blt"} THEN "bne" ELSE "beq")
        /\ expOut[2].operands = <<RegOp(1), RegOp(0), expIn.operands[3]>>

\* C27: for each of bgt, bge, blt and ble written as op r1, r2, L the
\* expansion is exactly two instructions: an slt whose three operands are
\* $at and the two source registers r1 and r2 (never the label operand L),
\* followed by a bne or beq on $at and $zero whose target is L.
C27_CompareBranchExpansion ==
    /\ C27_SltThenBranch
    /\ (Expanded /\ IsCompareBranch(expIn)) =>
           /\ \A j \in 2..3 : expOut[1].operands[j].type = "REGISTER"
           /\ {expOut[1].operands[2], expOut[1].operands[3]}
                  = {expIn.operands[1], expIn.operands[2]}

(***************************************************************************)
(* Source texts around one pseudo-instruction that has all the operands    *)
(* its template names.                                                     *)
(***************************************************************************)
PseudoInstances ==
    { InstrLine(m, <<D("t0"), D("t1")>>) : m \in {"move", "not", "neg", "abs"} }
    \cup { InstrLine("li", <<D("t0"), Num(FALSE, Digits(imm))>>) : imm \in {5, 65536} }
    \cup { InstrLine("la", <<D("t0"), W(label)>>) : label \in InstanceLabels }
    \cup { InstrLine(m, <<D("t0")>>) : m \in {"push", "pop"} }
    \cup { InstrLine(m, <<W(label)>>) : m \in {"b", "bal"}, label \in InstanceLabels }
    \cup { InstrLine(m, <<D("t0"), W(label)>>) : m \in {"beqz", "bnez"}, label \in InstanceLabels }
    \cup { InstrLine(m, <<D("t0"), D("t1"), W(label)>>) :
             m \in {"bgt", "bge", "blt", "ble", "jg", "jle"}, label \in InstanceLabels }

\* the lines behind it: those behind an instance, or a jump or a branch
PseudoLinesBehind ==
    LinesBehind \cup { <<InstrLine("j", <<W("L0")>>)>>,
                       <<InstrLine("beq", <<D("t0"), D("t1"), W("L1")>>), LabelLine("L1")>> }

PseudoPrograms ==
    {d \o before \o <<i>> \o behind :
        d \in DataParts, before \in LinesBefore, i \in PseudoInstances,
        behind \in PseudoLinesBehind}

PseudoInit ==
    /\ phase = "parse"
    /\ source \in PseudoPrograms
    /\ ParserInit /\ EncoderInit /\ LinkIdle /\ ExpIdle /\ FirstCall /\ MergeIdle

PseudoSpec == PseudoInit /\ [][AsmNext]_vars

\* the mnemonics of the lines of a template
ExpansionMnemonics(pseudo) == {pseudo.expansion[j][1].s : j \in DOMAIN pseudo.expansion}

\* the errors of the encoder for an unknown mnemonic, by the mnemonic of the
\* source instruction
UnknownInstructionErrors ==
    {errors[e].message[2] :
        e \in {n \in DOMAIN errors : /\ Len(errors[n].message) = 4
                                     /\ errors[n].message[3] = "Unknown instruction"}}

\* C28: every mnemonic that appears in the expansion of any
\* pseudo-instruction of the pseudo-instruction registry is defined in the
\* instruction registry, so encoding a pseudo-instruction that has all its
\* operands never fails with 'Unknown instruction'.
C28_ExpansionsAreInstructions ==
    /\ \A i \in DOMAIN PSEUDO_INSTRUCTIONS :
           \A m \in ExpansionMnemonics(PSEUDO_INSTRUCTIONS[i]) : HasInstruction(m)
    /\ \A m \in UnknownInstructionErrors : ~HasPseudo(m)

\* the same of every pseudo-instruction but abs
C28_ExpansionsAreInstructionsButAbs ==
    /\ \A i \in DOMAIN PSEUDO_INSTRUCTIONS :
           PSEUDO_INSTRUCTIONS[i].mnemonic # "abs" =>
               \A m \in ExpansionMnemonics(PSEUDO_INSTRUCTIONS[i]) : HasInstruction(m)
    /\ \A m \in UnknownInstructionErrors : m = "abs" \/ ~HasPseudo(m)

\* abs $t0, $t1 ended pass 1 on the error of movn
C28_AbsUnknown ==
    /\ Encoded
    /\ \E e \in DOMAIN errors :
           errors[e].message = <<"Failed to encode instruction", "abs", "Unknown instruction", "movn">>

(***************************************************************************)
(* The memory image generateOutput writes.                                 *)
(***************************************************************************)
\* C30: generateOutput(result, dir) writes the memory image carried by
\* result: after assemble(A) and then assemble(B) have both succeeded on the
\* same AdvancedAssembler, generateOutput(resultA, dir) emits A's
\* instruction and data words, not B's.
C30_OutputOfResult ==
    \A o \in DOMAIN outputs :
        ~outputs[o].threw =>
            /\ outputs[o].instructionMemory = results[outputs[o].result].instructionMemory
            /\ outputs[o].dataMemory = results[outputs[o].result].dataMemory

\* what is written is the image of the call that succeeded last, which is
\* the image of the result when no later call succeeded
C30_OutputOfLastSuccess ==
    \A o \in DOMAIN outputs :
        ~outputs[o].threw =>
            \E k \in DOMAIN results :
                /\ results[k].success /\ k >= outputs[o].result
                /\ \A j \in DOMAIN results : results[j].success => j <= k
                /\ outputs[o].instructionMemory = results[k].instructionMemory
                /\ outputs[o].dataMemory = results[k].dataMemory

(***************************************************************************)
(* The instruction index of pass 1 and the fixups.                         *)
(***************************************************************************)
\* between two source instructions of pass 1, and behind the last one
PassOne == phase \in {"encode", "resolve"}

\* the word at the index of the fixup is the word of a jump for a J fixup
\* and of a branch for a BRANCH fixup
FixupOnItsWord(fixup) ==
    LET op == ParseInstructionWord(WordAt(fixup.instructionIndex)).op
    IN  IF fixup.type = "J" THEN op \in {2, 3} ELSE op \in {1, 4, 5, 6, 7}

\* the index times 4 is the length of instruction memory
C29_IndexIsWordCount ==
    PassOne => currentInstructionIndex * 4 = Len(instructionMemory)

\* C29: between any two source instructions of pass 1, also right after an
\* instruction whose encoding failed, currentInstructionIndex x 4 equals the
\* length of instruction memory; hence every recorded fixup's
\* instructionIndex is smaller than the final instruction count and is the
\* index of the word emitted for the very j, jal or branch instruction that
\* created the fixup.
C29_IndexAndFixups ==
    /\ C29_IndexIsWordCount
    /\ phase = "resolve" =>
           \A k \in DOMAIN labelFixups :
               /\ labelFixups[k].instructionIndex < currentInstructionIndex
               /\ labelFixups[k].instructionIndex * 4 < Len(instructionMemory)
               /\ FixupOnItsWord(labelFixups[k])
               /\ LET i == emitted[labelFixups[k].instructionIndex + 1]
                  IN  \E j \in DOMAIN i.operands :
                          /\ i.operands[j].type = "LABEL"
                          /\ i.operands[j].label = labelFixups[k].label

\* abs $t0, $t1 failed on its third instruction with two words emitted, and
\* the jump or branch behind it recorded its fixup
C29_Witness ==
    /\ phase = "resolve"
    /\ \E k \in DOMAIN wordsOf :
           /\ wordsOf[k].failed /\ wordsOf[k].count = 2
           /\ instructions[k].mnemonic = "abs"
           /\ \E f \in DOMAIN labelFixups :
                  labelFixups[f].instructionIndex = wordsOf[k].first + 2
====
